---- MODULE Spec2Model ----
(***************************************************************************)
(* s3spectre: the concurrent S3 metadata collector (internal/s3) and the   *)
(* drift analyzer (internal/analyzer), with the scan / discover commands   *)
(* that drive them.                                                        *)
(*                                                                         *)
(* Specifications:                                                         *)
(*   BatchSpec    Inspector.InspectBuckets / Inspector.DiscoverAllBuckets  *)
(*                as a pool of workers bounded by a counting channel.      *)
(*   RegionSpec   the same batch with SetRegions / SetAllRegions calls.    *)
(*   BucketSpec   inspectBucket / inspectBucketFull of one container, one  *)
(*                remote call per step.                                    *)
(*   CommandSpec  runScan: repository scan, client, configuration, the     *)
(*                batch under the total-operation timeout, the analysis    *)
(*                and the exit conditions.                                 *)
(*   AnalyzeSpec  analyzeBucket applied to one container's metadata.       *)
(***************************************************************************)
EXTENDS Integers, Sequences, FiniteSets, TLC

VARIABLES
    \* ---- Inspector (internal/s3/inspector.go) ----
    mode,          \* "inspect" (InspectBuckets) or "discover" (DiscoverAllBuckets)
    supplied,      \* the concurrency handed to NewInspector
    concurrency,   \* Inspector.concurrency
    regions,       \* Inspector.regions
    allRegions,    \* Inspector.allRegions
    refs,          \* the references handed to InspectBuckets
    phase,         \* position of the batch call
    cancelled,     \* ctx.Done() is closed
    cancelAt,      \* phase at which ctx was cancelled ("" = never)
    awsBuckets,    \* buckets returned by ListBuckets
    bucketRegions, \* bucket -> region found while listing
    lookupFailed,  \* buckets whose GetBucketLocation failed
    failedCalls,   \* account-wide calls of the batch that returned an error
    resolved,      \* regions returned by determineRegions (<<>> before it and on error)
    pc,            \* bucket -> position of its worker goroutine
    winfo,         \* bucket -> the worker's local *BucketInfo
    npc,           \* bucket -> index in its prefix list -> position of the nested prefix worker
    ninfo,         \* bucket -> index in its prefix list -> the nested worker's local PrefixInfo
    nmu,           \* bucket -> holder of the nested mutex (<<>> = unlocked, <<k>> = worker k)
    nresults,      \* bucket -> results slice of inspectPrefixesWithClient
    semaphore,     \* tokens held in the container-level channel
    nsemaphore,    \* bucket -> tokens held in its nested channel
    mu,            \* holder of the batch mutex (<<>> = unlocked, <<b>> = worker of b)
    current,       \* completed counter of the batch
    bucketInfo,    \* the map under construction
    retMap,        \* returned map (NoMap while none / on error)
    retErr,        \* returned error ("" = nil)
    progressCallback, \* i.progressCallback != nil
    progressLog,   \* invocations of the callback so far: [current, total, bucket]
    faults,        \* remote calls of the batch that failed while ctx was live
    \* ---- one container, call by call ----
    bmode, bpc, binfo, bissued, bfailed,
    \* ---- scan / discover command ----
    cmdPc,         \* position of runScan / runDiscover
    cmdErr,        \* error returned by the command ("" = nil)
    analysis,      \* result of Analyze / AnalyzeDiscovery
    gates,         \* fail-on flags the exit conditions were checked with
    \* ---- analyzer ----
    aBucket, aInfo, aRefs, aConfig, aResult,
    \* ---- Analyze run twice on one metadata map ----
    dInfo,         \* the metadata map handed to Analyze
    dOut1,         \* *Result of the first run
    dOut2,         \* *Result of the second run
    \* ---- one WithRetry call ----
    rPc,           \* "call": about to invoke the operation, "select": in the backoff select
    rAttempt,      \* loop variable attempt
    rErrs,         \* errors returned by the invocations so far ("" = nil)
    rWaits,        \* delays (seconds) of the backoff waits entered so far
    rTimer,        \* the time.After channel of the current wait is ready
    rRet,          \* returned error ("" = nil), valid once rPc = "done"
    rDone,         \* ctx.Done() is closed
    rCancelCalls,  \* invocations made when ctx was cancelled (-1 while it is not)
    \* ---- one baseline.Diff call ----
    fCurrent,      \* argument current
    fBaseline,     \* argument baseline
    fResult,       \* the DiffResult (<<>> before the call)
    \* ---- one version pass (calculateVersionSizes inside WithRetry) ----
    vServerPages,  \* number of version-listing pages the bucket has
    keyMarker,     \* keyMarker / versionIDMarker: page the next listing starts at (0 = nil)
    iteration,     \* local iteration
    totalVersionSize,  \* local totalVersionSize
    versionCount,  \* local versionCount
    vAccumulated,  \* pages whose contents were added, in order
    vInfo          \* the fields of *BucketInfo the pass reads and writes

inputVars == <<mode, supplied, concurrency, refs, progressCallback>>
regionVars == <<regions, allRegions>>
ctxVars == <<cancelled, cancelAt>>
listVars == <<awsBuckets, bucketRegions, failedCalls, resolved, faults>>
nestedVars == <<npc, ninfo, nmu, nresults, nsemaphore>>
retVars == <<retMap, retErr>>
batchVars == <<inputVars, regionVars, ctxVars, listVars, nestedVars, retVars, phase,
               lookupFailed, pc, winfo, semaphore, mu, current, bucketInfo, progressLog>>
bucketVars == <<bmode, bpc, binfo, bissued, bfailed>>
cmdVars == <<cmdPc, cmdErr, analysis, gates>>
anaVars == <<aBucket, aInfo, aRefs, aConfig, aResult>>
rerunVars == <<dInfo, dOut1, dOut2>>
retryVars == <<rPc, rAttempt, rErrs, rWaits, rTimer, rRet, rDone, rCancelCalls>>
diffVars == <<fCurrent, fBaseline, fResult>>
versionVars == <<vServerPages, keyMarker, iteration, totalVersionSize, versionCount,
                 vAccumulated, vInfo>>
extraVars == <<diffVars, versionVars>>
moreVars == <<rerunVars, retryVars, extraVars>>
nonBatch == <<bucketVars, cmdVars, anaVars, moreVars>>
vars == <<batchVars, bucketVars, cmdVars, anaVars, moreVars>>

----------------------------------------------------------------------------
(* Universe of the environment and of the inputs.                           *)

Buckets == {"b1", "b2"}
\* "" is a reference that names no prefix (scanner.Reference.Prefix == "")
Prefixes == {"", "p1", "p2"}
MaxRefs == 3
DefaultRegion == "us-east-1"      \* Client.GetRegion() of the base client
OtherRegion == "eu-west-1"
\* where each bucket really lives (GetBucketLocation's answer when it succeeds)
HomeRegion(b) == IF b = "b1" THEN DefaultRegion ELSE OtherRegion

\* error texts a WithRetry-wrapped remote call can end with
ErrAccessDenied == "AccessDenied"
ErrSlowDown == "max retries exceeded: SlowDown"
ErrCanceled == "context canceled"
\* ctx.Err() once the deadline of context.WithTimeout has passed
ErrDeadlineExceeded == "context deadline exceeded"
CallErrors == {ErrAccessDenied, ErrSlowDown}

NoError == <<>>
NoInfo == [Name |-> ""]
\* the nil map returned with an error
NoMap == [b \in {"(nil)"} |-> NoInfo]

SeqsUpTo(S, n) == UNION {[1..k -> S] : k \in 0..n}

Reference(b, p) == [Bucket |-> b, Prefix |-> p]
\* the references a scan can produce, in a fixed order; the inputs are the lists
\* of at most MaxRefs of them (repetitions allowed) in that order: the collector
\* groups the list by bucket and the analyzer reads it as a set
RefUniverse == <<Reference("b1", ""), Reference("b1", "p1"), Reference("b1", "p2"),
                 Reference("b2", ""), Reference("b2", "p1")>>
SortedIndexSeqs(k) ==
    {g \in [1..k -> DOMAIN RefUniverse] : \A i \in 1..k, j \in 1..k : i < j => g[i] <= g[j]}
RefLists(n) ==
    UNION {{[i \in 1..k |-> RefUniverse[g[i]]] : g \in SortedIndexSeqs(k)} : k \in 0..n}
RefInputs == RefLists(MaxRefs)

Range(s) == {s[i] : i \in DOMAIN s}

----------------------------------------------------------------------------
(* NewInspector, region resolution                                          *)

DefaultConcurrency == 10

NewInspector(c) == IF c <= 0 THEN DefaultConcurrency ELSE c

\* determineRegions that falls back to the client's region when ListRegions fails
determineRegions_fallback(regs, all, listOk) ==
    IF Len(regs) > 0 THEN [regions |-> regs, err |-> ""]
    ELSE IF all /\ listOk THEN [regions |-> <<DefaultRegion, OtherRegion>>, err |-> ""]
    ELSE [regions |-> <<DefaultRegion>>, err |-> ""]

\* determineRegions with the all-regions flag tested ahead of the explicit list
determineRegions_allFirst(regs, all, listOk) ==
    IF all
    THEN IF listOk THEN [regions |-> <<DefaultRegion, OtherRegion>>, err |-> ""]
         ELSE [regions |-> <<>>, err |-> "failed to list AWS regions"]
    ELSE IF Len(regs) > 0 THEN [regions |-> regs, err |-> ""]
    ELSE [regions |-> <<DefaultRegion>>, err |-> ""]

\* determineRegions: [regions, err]; listOk is the outcome of Client.ListRegions
determineRegions(regs, all, listOk) ==
    IF Len(regs) > 0 THEN [regions |-> regs, err |-> ""]
    ELSE IF all
         THEN IF listOk THEN [regions |-> <<DefaultRegion, OtherRegion>>, err |-> ""]
              ELSE [regions |-> <<>>, err |-> "failed to list AWS regions"]
         ELSE [regions |-> <<DefaultRegion>>, err |-> ""]

----------------------------------------------------------------------------
(* Outcomes of the WithRetry-wrapped remote calls.  A call's outcome is a   *)
(* record [err, val]: err = "" is success, val is what the response holds.  *)

Ok(v) == [err |-> "", val |-> v]
Fail(e, zero) == [err |-> e, val |-> zero]

ErrNoSuchLifecycle == "NoSuchLifecycleConfiguration"
ErrNoSuchTagSet == "NoSuchTagSet"

NilTags == [k \in {} |-> ""]   \* a nil map[string]string ranges like an empty one
SomeTags == [k \in {"env"} |-> "prod"]

LocationOutcomes(b) == {Ok(HomeRegion(b))} \cup {Fail(e, "") : e \in CallErrors}
VersioningOutcomes == {Ok("Enabled"), Ok("Suspended")} \cup {Fail(e, "") : e \in CallErrors}
LifecycleOutcomes == {Ok(0), Ok(2), Fail(ErrNoSuchLifecycle, 0)} \cup {Fail(e, 0) : e \in CallErrors}
TaggingOutcomes == {Ok(NilTags), Ok(SomeTags), Fail(ErrNoSuchTagSet, NilTags)}
                       \cup {Fail(e, NilTags) : e \in CallErrors}
\* ListObjectsV2: val is <<KeyCount, days since the newest LastModified, sum of the sizes>>
ListingOutcomes ==
    {Ok(<<0, 0, 0>>), Ok(<<1, 200, 7>>)} \cup {Fail(e, <<0, 0, 0>>) : e \in CallErrors}
\* calculateVersionSizes: val is <<versions and delete markers counted, sum of the
\* version sizes>> when WithRetry returned; a pass that fails keeps what the
\* pages before the failure added
VersionSizeOutcomes ==
    {Ok(<<0, 0>>), Ok(<<3, 107>>)} \cup {Fail(e, <<0, 0>>) : e \in CallErrors}
        \cup {Fail(e, <<1, 7>>) : e \in CallErrors}
PrefixOutcomes == {Ok(<<0, 0>>), Ok(<<2, 5>>), Ok(<<101, 120>>)} \cup {Fail(e, <<0, 0>>) : e \in CallErrors}

\* strings.Contains(s, substr): substr occurs in s at some position
Contains(s, substr) ==
    \E i \in 1..(Len(s) - Len(substr) + 1) : SubSeq(s, i, i + Len(substr) - 1) = substr

\* formatError: <<operation, resource, cause>>; NoError for a nil error
formatError(operation, resource, err) ==
    IF err = "" THEN NoError
    ELSE IF Contains(err, "AccessDenied") \/ Contains(err, "Access Denied")
         THEN <<operation, resource, "Access Denied - check IAM permissions">>
    ELSE IF Contains(err, "NoSuchBucket")
         THEN <<operation, resource, "Bucket does not exist or is in a different region">>
    ELSE IF Contains(err, "RequestLimitExceeded") \/ Contains(err, "SlowDown")
         THEN <<operation, resource, "Rate limit exceeded - consider reducing --concurrency">>
    ELSE <<operation, resource, err>>

----------------------------------------------------------------------------
(* BucketInfo and the steps of inspectBucket / inspectBucketFull            *)

ZeroInfo(name) ==
    [Name |-> name, Exists |-> FALSE, Region |-> "",
     VersioningEnabled |-> FALSE, LifecycleRules |-> 0, Tags |-> NilTags,
     IsEmpty |-> FALSE, ObjectCount |-> 0, DaysSinceActivity |-> 0, VersionCount |-> 0,
     AgeInDays |-> 0, Encryption |-> <<>>, PublicAccess |-> <<>>,
     CreationDate |-> <<>>, LastActivity |-> <<>>, TotalSize |-> 0, TotalVersionSize |-> 0,
     Prefixes |-> <<>>, Error |-> NoError]

\* inspectBucket, the location lookup fails
locationFailed(bucket, err) ==
    [ZeroInfo(bucket) EXCEPT !.Error = formatError("get bucket location", bucket, err)]

\* inspectBucket, the location lookup succeeds
locationFound(bucket, region) ==
    [ZeroInfo(bucket) EXCEPT !.Exists = TRUE, !.Region = region]

\* days since each bucket was created, as ListBuckets reports its CreationDate
CreationAgeDays(b) == IF b = "b1" THEN 400 ELSE 10

\* a *bucketMetadata: <<>> for nil, else <<[CreationDate]>>, where CreationDate is
\* <<>> for nil and <<d>> for a time d days before now
MetadataInputs(b) == {<<>>, <<[CreationDate |-> <<>>]>>, <<[CreationDate |-> <<CreationAgeDays(b)>>]>>}

\* inspectBucketFull, the record it starts from: name, region, Exists, and the
\* creation date and age when the metadata holds a date
fullStart(bucket, region, metadata) ==
    LET start == [ZeroInfo(bucket) EXCEPT !.Exists = TRUE, !.Region = region]
    IN  IF metadata # <<>> /\ metadata[1].CreationDate # <<>>
        THEN [start EXCEPT !.CreationDate = metadata[1].CreationDate,
                           !.AgeInDays = metadata[1].CreationDate[1]]
        ELSE start

\* GetBucketVersioning in inspectBucket: the error is recorded
applyVersioning(info, out) ==
    IF out.err = ""
    THEN [info EXCEPT !.VersioningEnabled = (out.val = "Enabled")]
    ELSE [info EXCEPT !.Error = formatError("get versioning", info.Name, out.err)]

\* GetBucketVersioning in inspectBucketFull: the error is dropped
applyVersioningFull(info, out) ==
    IF out.err = ""
    THEN [info EXCEPT !.VersioningEnabled = (out.val = "Enabled")]
    ELSE info

\* GetBucketLifecycleConfiguration (both modes): the error is dropped
applyLifecycle(info, out) ==
    IF out.err = "" THEN [info EXCEPT !.LifecycleRules = out.val] ELSE info

\* GetBucketTagging (both modes): the error is dropped
applyTagging(info, out) ==
    IF out.err = "" /\ out.val # NilTags THEN [info EXCEPT !.Tags = out.val] ELSE info

\* ListObjectsV2 MaxKeys=1 in inspectBucket: the error is dropped
applyListing(info, out) ==
    IF out.err = "" THEN [info EXCEPT !.IsEmpty = (out.val[1] = 0)] ELSE info

\* ListObjectsV2 MaxKeys=100 in inspectBucketFull: the error is dropped
applyListingFull(info, out) ==
    IF out.err = ""
    THEN LET listed == [info EXCEPT !.IsEmpty = (out.val[1] = 0), !.ObjectCount = out.val[1],
                                    !.TotalSize = out.val[3]]
         IN  IF out.val[1] > 0
             THEN [listed EXCEPT !.LastActivity = <<out.val[2]>>,
                                 !.DaysSinceActivity = out.val[2]]
             ELSE listed
    ELSE info

\* calculateVersionSizes, called for a versioned bucket: the two sums are
\* assigned whatever WithRetry returned
applyVersionSizes(info, out) ==
    IF ~info.VersioningEnabled THEN info
    ELSE [info EXCEPT !.TotalVersionSize = out.val[2], !.VersionCount = out.val[1]]

\* extractPrefixes without the prefixMap test: one element per reference that
\* names a prefix
extractPrefixes_all(rs) ==
    LET named == SelectSeq(rs, LAMBDA r : r.Prefix # "")
    IN  [i \in DOMAIN named |-> named[i].Prefix]

RECURSIVE extractFrom(_, _, _)
extractFrom(rs, i, acc) ==
    IF i > Len(rs) THEN acc
    ELSE IF rs[i].Prefix # "" /\ rs[i].Prefix \notin Range(acc)
         THEN extractFrom(rs, i + 1, Append(acc, rs[i].Prefix))
         ELSE extractFrom(rs, i + 1, acc)

\* extractPrefixes: the distinct non-empty prefixes, in order of first occurrence
extractPrefixes(rs) == extractFrom(rs, 1, <<>>)

\* inspectPrefixWithClient
inspectPrefixWithClient(prefix, out) ==
    IF out.err # "" \/ out.val[1] = 0
    THEN [Prefix |-> prefix, Exists |-> FALSE, ObjectCount |-> 0, DaysSinceModified |-> 0]
    ELSE [Prefix |-> prefix, Exists |-> TRUE, ObjectCount |-> out.val[1],
          DaysSinceModified |-> out.val[2]]

\* bucketRefs of InspectBuckets: the references grouped by bucket
filterRefsByBucket(rs, bucket) == SelectSeq(rs, LAMBDA r : r.Bucket = bucket)
bucketRefsKeys(rs) == {rs[i].Bucket : i \in DOMAIN rs}

----------------------------------------------------------------------------
(* The batch: InspectBuckets / DiscoverAllBuckets                           *)

ConcurrencyInputs == {-1, 0, 1, 2}

\* remote calls of one batch that the environment lets fail while the context
\* is live (a call made under a cancelled context always fails)
MaxFaults == 1

\* outcomes the batch draws for each remote call of a container
BatchLocationOutcomes(b) == {Ok(HomeRegion(b)), Fail(ErrAccessDenied, "")}
BatchVersioningOutcomes == {Ok("Enabled"), Fail(ErrSlowDown, "")}
BatchLifecycleOutcomes == {Ok(2), Fail(ErrAccessDenied, 0)}
BatchTaggingOutcomes == {Ok(SomeTags), Fail(ErrAccessDenied, NilTags)}
BatchListingOutcomes == {Ok(<<1, 200, 7>>), Fail(ErrAccessDenied, <<0, 0, 0>>)}
BatchVersionSizeOutcomes == {Ok(<<3, 107>>), Fail(ErrAccessDenied, <<1, 7>>)}
BatchPrefixOutcomes == {Ok(<<2, 5>>), Fail(ErrAccessDenied, <<0, 0>>)}

\* a remote call issued with a cancelled context fails with the context's error;
\* otherwise it may fail while the environment's fault budget lasts
Outcomes(S, zero) ==
    IF cancelled THEN {Fail(ErrDeadlineExceeded, zero)}
    ELSE IF faults < MaxFaults THEN S
    ELSE {out \in S : out.err = ""}

\* the fault budget after a call with outcome out
Charged(out) == IF out.err # "" /\ ~cancelled THEN faults + 1 ELSE faults

EmptyMap == [b \in {} |-> NoInfo]

\* a channel that admits one send more than its capacity
CanAcquire_inclusive(tokens, capacity) == tokens <= capacity

\* a channel of one slot fewer than its capacity
CanAcquire_oneFewer(tokens, capacity) == tokens < capacity - 1

\* semaphore <- struct{}{} : the send proceeds while the channel is not full
CanAcquire(tokens, capacity) == tokens < capacity

\* a mutex whose Lock returns at once, held or not
Unlocked_always(holder) == TRUE

\* sync.Mutex: Lock returns only while no goroutine holds the mutex
Unlocked(holder) == holder = <<>>

\* positions of a worker at which one of its remote calls is the next step
CallPositions == {"location", "versioning", "lifecycle", "tagging", "listing", "versions"}

\* positions of a worker between its send on the channel and its receive from it
Holding(p) == p \in CallPositions \cup {"prefixes", "agg", "crit", "unlocked"}

\* positions of a worker after its critical section
Past(p) == p \in {"unlocked", "released", "done"}

BatchInitWith(modes, widths, refInputs) ==
    /\ mode \in modes
    /\ supplied \in widths
    /\ concurrency = NewInspector(supplied)
    /\ regions = <<>>
    /\ allRegions = FALSE
    /\ refs \in (IF mode = "inspect" THEN refInputs ELSE {<<>>})
    /\ phase = "config"
    /\ cancelled = FALSE
    /\ cancelAt = ""
    /\ faults = 0
    /\ awsBuckets = {}
    /\ bucketRegions = [b \in {} |-> ""]
    /\ lookupFailed = {}
    /\ failedCalls = {}
    /\ resolved = <<>>
    /\ pc = [b \in {} |-> ""]
    /\ winfo = [b \in {} |-> NoInfo]
    /\ npc = [b \in {} |-> ""]
    /\ ninfo = [b \in {} |-> ""]
    /\ nmu = [b \in {} |-> ""]
    /\ nresults = [b \in {} |-> <<>>]
    /\ semaphore = 0
    /\ nsemaphore = [b \in {} |-> 0]
    /\ mu = <<>>
    /\ current = 0
    /\ bucketInfo = EmptyMap
    /\ retMap = NoMap
    /\ retErr = ""
    /\ progressCallback = FALSE
    /\ progressLog = <<>>

BatchInit == BatchInitWith({"inspect", "discover"}, ConcurrencyInputs, RefInputs)

\* the fields a setter leaves behind: <<regions, allRegions>>
setRegions(r) == <<r, FALSE>>
setAllRegions(regs, enabled) == <<regs, enabled>>

\* Inspector.SetRegions
SetRegions(r) ==
    /\ regions' = setRegions(r)[1]
    /\ allRegions' = setRegions(r)[2]
    /\ UNCHANGED <<inputVars, progressLog, ctxVars, listVars, nestedVars, retVars, phase,
                   lookupFailed, pc, winfo, semaphore, mu, current, bucketInfo,
                   nonBatch>>

\* Inspector.SetAllRegions
SetAllRegions(enabled) ==
    /\ regions' = setAllRegions(regions, enabled)[1]
    /\ allRegions' = setAllRegions(regions, enabled)[2]
    /\ UNCHANGED <<inputVars, progressLog, ctxVars, listVars, nestedVars, retVars, phase,
                   lookupFailed, pc, winfo, semaphore, mu, current, bucketInfo,
                   nonBatch>>

\* Inspector.SetProgressCallback; callback is TRUE for a function, FALSE for nil
SetProgressCallback(callback) ==
    /\ progressCallback' = callback
    /\ UNCHANGED <<mode, supplied, concurrency, refs, progressLog, regionVars, ctxVars,
                   listVars, nestedVars, retVars, phase, lookupFailed, pc, winfo, semaphore,
                   mu, current, bucketInfo, nonBatch>>

\* reportProgress handed the counter as it was before the increment
reportProgress_stale(log, cur, total, bucket) ==
    IF progressCallback
    THEN Append(log, [current |-> IF cur > 0 THEN cur - 1 ELSE cur, total |-> total,
                      bucket |-> bucket])
    ELSE log

\* Inspector.reportProgress: the log after one call
reportProgress(log, cur, total, bucket) ==
    IF progressCallback THEN Append(log, [current |-> cur, total |-> total, bucket |-> bucket])
    ELSE log

\* InspectBuckets / DiscoverAllBuckets up to the listing call: determineRegions
ResolveRegions ==
    /\ phase = "config"
    /\ \E listOk \in (IF cancelled THEN {FALSE} ELSE BOOLEAN) :
          LET r == determineRegions(regions, allRegions, listOk) IN
          /\ failedCalls' = IF Len(regions) = 0 /\ allRegions /\ ~listOk
                             THEN failedCalls \cup {"DescribeRegions"} ELSE failedCalls
          /\ resolved' = r.regions
          /\ IF r.err # ""
             THEN /\ phase' = "returned"
                  /\ retErr' = "failed to determine regions"
                  /\ progressLog' = progressLog
             ELSE /\ phase' = "listing"
                  /\ retErr' = retErr
                  /\ progressLog' = reportProgress(reportProgress(progressLog, 0, 1, ""), 0, 2, "")
    /\ UNCHANGED <<inputVars, regionVars, ctxVars, awsBuckets, bucketRegions, faults, nestedVars,
                   retMap, lookupFailed, pc, winfo, semaphore, mu, current, bucketInfo,
                   nonBatch>>

\* listAllBucketsMultiRegion / listAllBucketsWithMetadata: the ListBuckets call
\* fails and the batch returns the error
ListBucketsFails ==
    /\ phase = "listing"
    /\ \E out \in (IF cancelled THEN {Fail(ErrDeadlineExceeded, 0)}
                                ELSE {Fail(e, 0) : e \in CallErrors}) :
          /\ failedCalls' = failedCalls \cup {"ListBuckets"}
          /\ phase' = "returned"
          /\ retErr' = "failed to list AWS buckets"
    /\ UNCHANGED <<inputVars, progressLog, regionVars, ctxVars, awsBuckets, bucketRegions, faults,
                   resolved, nestedVars, retMap, lookupFailed, pc, winfo, semaphore, mu,
                   current, bucketInfo, nonBatch>>

\* the ListBuckets call succeeds: result.Buckets names the buckets of the account
ListBuckets ==
    /\ phase = "listing"
    /\ ~cancelled
    /\ \E account \in SUBSET Buckets : awsBuckets' = account
    /\ bucketRegions' = [b \in {} |-> ""]
    /\ phase' = "locating"
    /\ UNCHANGED <<inputVars, progressLog, regionVars, ctxVars, failedCalls, resolved, faults,
                   nestedVars, retVars, lookupFailed, pc, winfo, semaphore, mu, current,
                   bucketInfo, nonBatch>>

\* result.Buckets is visited in the order of the listing
ListingOrder == <<"b1", "b2">>

\* the buckets of the listing whose region is still to be looked up, in order
unlocated == SelectSeq(ListingOrder, LAMBDA b : b \in awsBuckets /\ b \notin DOMAIN bucketRegions)

\* the loop over result.Buckets: getBucketRegion of the next bucket; on an
\* error the client's region is taken
ListedBucketRegion ==
    /\ phase = "locating"
    /\ unlocated # <<>>
    /\ LET b == Head(unlocated) IN
       \E out \in Outcomes(BatchLocationOutcomes(b), "") :
          /\ bucketRegions' = (b :> (IF out.err # "" THEN DefaultRegion ELSE out.val))
                                  @@ bucketRegions
          /\ lookupFailed' = IF mode = "discover" /\ out.err # ""
                             THEN lookupFailed \cup {b} ELSE lookupFailed
          /\ faults' = Charged(out)
    /\ UNCHANGED <<inputVars, progressLog, regionVars, ctxVars, awsBuckets, failedCalls, resolved,
                   nestedVars, retVars, phase, pc, winfo, semaphore, mu, current, bucketInfo,
                   nonBatch>>

\* InspectBuckets lines 86-94: one record per referenced bucket (a bucket the
\* listing did not return reads the zero values of the two maps)
initialBucketInfo(rs, account, regs) ==
    [b \in bucketRefsKeys(rs) |->
        [ZeroInfo(b) EXCEPT !.Exists = (b \in account),
                            !.Region = IF b \in DOMAIN regs THEN regs[b] ELSE ""]]

\* bucketMetadata[bucket] of listAllBucketsWithMetadata: a pointer to the
\* record holding the bucket's creation date
listedMetadata(b) == <<[CreationDate |-> <<CreationAgeDays(b)>>]>>

\* the listing has returned: the map is prepared and one goroutine per bucket started
StartWorkers ==
    /\ phase = "locating"
    /\ unlocated = <<>>
    /\ LET keys == IF mode = "inspect" THEN bucketRefsKeys(refs) ELSE awsBuckets
       IN  /\ bucketInfo' = IF mode = "inspect"
                            THEN initialBucketInfo(refs, awsBuckets, bucketRegions)
                            ELSE EmptyMap
           /\ pc' = [b \in keys |-> "wait"]
           /\ winfo' = [b \in keys |-> NoInfo]
           /\ npc' = [b \in keys |-> [p \in {} |-> ""]]
           /\ ninfo' = [b \in keys |-> [p \in {} |-> ""]]
           /\ nmu' = [b \in keys |-> <<>>]
           /\ nresults' = [b \in keys |-> <<>>]
           /\ nsemaphore' = [b \in keys |-> 0]
    /\ phase' = "workers"
    /\ UNCHANGED <<inputVars, progressLog, regionVars, ctxVars, listVars, retVars, lookupFailed,
                   semaphore, mu, current, nonBatch>>

\* what a worker step leaves alone besides pc, winfo and the variables it names
WorkerUnchanged ==
    UNCHANGED <<inputVars, progressLog, regionVars, ctxVars, awsBuckets, bucketRegions,
                failedCalls, resolved, retVars, phase, mu, current, bucketInfo, nonBatch>>

\* worker: semaphore <- struct{}{}; the record inspectBucket / inspectBucketFull starts from
Acquire(b) ==
    /\ phase = "workers"
    /\ b \in DOMAIN pc
    /\ pc[b] = "wait"
    /\ CanAcquire(semaphore, concurrency)
    /\ semaphore' = semaphore + 1
    /\ IF mode = "inspect"
       THEN /\ winfo' = [winfo EXCEPT ![b] = ZeroInfo(b)]
            /\ pc' = [pc EXCEPT ![b] = "location"]
       ELSE /\ winfo' = [winfo EXCEPT ![b] = fullStart(b, bucketRegions[b], listedMetadata(b))]
            /\ pc' = [pc EXCEPT ![b] = "versioning"]
    /\ UNCHANGED <<faults, lookupFailed, nestedVars>>
    /\ WorkerUnchanged

\* worker, inspectBucket: getBucketRegion; on an error the record is returned as it is
GetBucketRegion(b) ==
    /\ phase = "workers"
    /\ b \in DOMAIN pc
    /\ pc[b] = "location"
    /\ \E out \in Outcomes(BatchLocationOutcomes(b), "") :
          /\ faults' = Charged(out)
          /\ IF out.err # ""
             THEN /\ winfo' = [winfo EXCEPT ![b] = locationFailed(b, out.err)]
                  /\ lookupFailed' = lookupFailed \cup {b}
                  /\ pc' = [pc EXCEPT ![b] = "agg"]
             ELSE /\ winfo' = [winfo EXCEPT ![b] = locationFound(b, out.val)]
                  /\ lookupFailed' = lookupFailed
                  /\ pc' = [pc EXCEPT ![b] = "versioning"]
    /\ UNCHANGED <<semaphore, nestedVars>>
    /\ WorkerUnchanged

\* worker: GetBucketVersioning
GetBucketVersioning(b) ==
    /\ phase = "workers"
    /\ b \in DOMAIN pc
    /\ pc[b] = "versioning"
    /\ \E out \in Outcomes(BatchVersioningOutcomes, "") :
          /\ faults' = Charged(out)
          /\ winfo' = [winfo EXCEPT ![b] = IF mode = "inspect" THEN applyVersioning(@, out)
                                           ELSE applyVersioningFull(@, out)]
    /\ pc' = [pc EXCEPT ![b] = "lifecycle"]
    /\ UNCHANGED <<semaphore, lookupFailed, nestedVars>>
    /\ WorkerUnchanged

\* worker: GetBucketLifecycleConfiguration
GetBucketLifecycleConfiguration(b) ==
    /\ phase = "workers"
    /\ b \in DOMAIN pc
    /\ pc[b] = "lifecycle"
    /\ \E out \in Outcomes(BatchLifecycleOutcomes, 0) :
          /\ faults' = Charged(out)
          /\ winfo' = [winfo EXCEPT ![b] = applyLifecycle(@, out)]
    /\ pc' = [pc EXCEPT ![b] = "tagging"]
    /\ UNCHANGED <<semaphore, lookupFailed, nestedVars>>
    /\ WorkerUnchanged

\* worker: GetBucketTagging
GetBucketTagging(b) ==
    /\ phase = "workers"
    /\ b \in DOMAIN pc
    /\ pc[b] = "tagging"
    /\ \E out \in Outcomes(BatchTaggingOutcomes, NilTags) :
          /\ faults' = Charged(out)
          /\ winfo' = [winfo EXCEPT ![b] = applyTagging(@, out)]
    /\ pc' = [pc EXCEPT ![b] = "listing"]
    /\ UNCHANGED <<semaphore, lookupFailed, nestedVars>>
    /\ WorkerUnchanged

\* the prefix list inspectBucket hands to inspectPrefixesWithClient
prefixList(b) == extractPrefixes(filterRefsByBucket(refs, b))

\* worker: ListObjectsV2 of the bucket.  inspectBucket then extracts the prefixes
\* and inspectPrefixesWithClient starts one goroutine per element of the list;
\* inspectBucketFull goes on to the version pass of a versioned bucket
ListObjectsV2(b) ==
    /\ phase = "workers"
    /\ b \in DOMAIN pc
    /\ pc[b] = "listing"
    /\ \E out \in Outcomes(BatchListingOutcomes, <<0, 0, 0>>) :
          /\ faults' = Charged(out)
          /\ winfo' = [winfo EXCEPT ![b] = IF mode = "inspect" THEN applyListing(@, out)
                                           ELSE applyListingFull(@, out)]
    /\ IF mode = "inspect"
       THEN IF Len(prefixList(b)) > 0
            THEN /\ pc' = [pc EXCEPT ![b] = "prefixes"]
                 /\ npc' = [npc EXCEPT ![b] = [k \in DOMAIN prefixList(b) |-> "wait"]]
            ELSE /\ pc' = [pc EXCEPT ![b] = "agg"]
                 /\ npc' = npc
       ELSE /\ pc' = [pc EXCEPT ![b] = IF winfo[b].VersioningEnabled THEN "versions" ELSE "agg"]
            /\ npc' = npc
    /\ UNCHANGED <<semaphore, lookupFailed, ninfo, nmu, nresults, nsemaphore>>
    /\ WorkerUnchanged

\* worker, inspectBucketFull: calculateVersionSizes of a versioned bucket
CalculateVersionSizes(b) ==
    /\ phase = "workers"
    /\ b \in DOMAIN pc
    /\ pc[b] = "versions"
    /\ \E out \in Outcomes(BatchVersionSizeOutcomes, <<0, 0>>) :
          /\ faults' = Charged(out)
          /\ winfo' = [winfo EXCEPT ![b] = applyVersionSizes(@, out)]
    /\ pc' = [pc EXCEPT ![b] = "agg"]
    /\ UNCHANGED <<semaphore, lookupFailed, nestedVars>>
    /\ WorkerUnchanged

\* what a prefix worker step leaves alone besides the nested variables
NestedUnchanged ==
    UNCHANGED <<inputVars, progressLog, regionVars, ctxVars, awsBuckets, bucketRegions,
                failedCalls, resolved, retVars, phase, lookupFailed, pc, winfo, semaphore, mu,
                current, bucketInfo, nonBatch>>

\* prefix worker: semaphore <- struct{}{} on the nested channel
NAcquire(b, p) ==
    /\ phase = "workers"
    /\ b \in DOMAIN pc
    /\ pc[b] = "prefixes"
    /\ p \in DOMAIN npc[b]
    /\ npc[b][p] = "wait"
    /\ CanAcquire(nsemaphore[b], concurrency)
    /\ nsemaphore' = [nsemaphore EXCEPT ![b] = @ + 1]
    /\ npc' = [npc EXCEPT ![b][p] = "run"]
    /\ UNCHANGED <<faults, ninfo, nmu, nresults>>
    /\ NestedUnchanged

\* prefix worker: inspectPrefixWithClient
NInspect(b, p) ==
    /\ phase = "workers"
    /\ b \in DOMAIN pc
    /\ pc[b] = "prefixes"
    /\ p \in DOMAIN npc[b]
    /\ npc[b][p] = "run"
    /\ \E out \in Outcomes(BatchPrefixOutcomes, <<0, 0>>) :
          /\ faults' = Charged(out)
          /\ ninfo' = [ninfo EXCEPT ![b] =
                          (p :> inspectPrefixWithClient(prefixList(b)[p], out)) @@ @]
    /\ npc' = [npc EXCEPT ![b][p] = "agg"]
    /\ UNCHANGED <<nmu, nresults, nsemaphore>>
    /\ NestedUnchanged

\* prefix worker: mu.Lock()
NLock(b, p) ==
    /\ phase = "workers"
    /\ b \in DOMAIN pc
    /\ pc[b] = "prefixes"
    /\ p \in DOMAIN npc[b]
    /\ npc[b][p] = "agg"
    /\ Unlocked(nmu[b])
    /\ nmu' = [nmu EXCEPT ![b] = <<p>>]
    /\ npc' = [npc EXCEPT ![b][p] = "crit"]
    /\ UNCHANGED <<faults, ninfo, nresults, nsemaphore>>
    /\ NestedUnchanged

\* prefix worker: results = append(results, info); mu.Unlock()
NAppend(b, p) ==
    /\ phase = "workers"
    /\ b \in DOMAIN pc
    /\ pc[b] = "prefixes"
    /\ p \in DOMAIN npc[b]
    /\ npc[b][p] = "crit"
    /\ nresults' = [nresults EXCEPT ![b] = Append(@, ninfo[b][p])]
    /\ nmu' = [nmu EXCEPT ![b] = <<>>]
    /\ npc' = [npc EXCEPT ![b][p] = "unlocked"]
    /\ UNCHANGED <<faults, ninfo, nsemaphore>>
    /\ NestedUnchanged

\* prefix worker, first deferred call: <-semaphore
NRelease(b, p) ==
    /\ phase = "workers"
    /\ b \in DOMAIN pc
    /\ pc[b] = "prefixes"
    /\ p \in DOMAIN npc[b]
    /\ npc[b][p] = "unlocked"
    /\ nsemaphore' = [nsemaphore EXCEPT ![b] = @ - 1]
    /\ npc' = [npc EXCEPT ![b][p] = "released"]
    /\ UNCHANGED <<faults, ninfo, nmu, nresults>>
    /\ NestedUnchanged

\* prefix worker, last deferred call: wg.Done()
NDone(b, p) ==
    /\ phase = "workers"
    /\ b \in DOMAIN pc
    /\ pc[b] = "prefixes"
    /\ p \in DOMAIN npc[b]
    /\ npc[b][p] = "released"
    /\ npc' = [npc EXCEPT ![b][p] = "done"]
    /\ UNCHANGED <<faults, ninfo, nmu, nresults, nsemaphore>>
    /\ NestedUnchanged

\* inspectPrefixesWithClient: wg.Wait() returns; info.Prefixes = results
Join(b) ==
    /\ phase = "workers"
    /\ b \in DOMAIN pc
    /\ pc[b] = "prefixes"
    /\ \A p \in DOMAIN npc[b] : npc[b][p] = "done"
    /\ winfo' = [winfo EXCEPT ![b].Prefixes = nresults[b]]
    /\ pc' = [pc EXCEPT ![b] = "agg"]
    /\ UNCHANGED <<faults, semaphore, lookupFailed, nestedVars>>
    /\ WorkerUnchanged

\* worker: mu.Lock()
Lock(b) ==
    /\ phase = "workers"
    /\ b \in DOMAIN pc
    /\ pc[b] = "agg"
    /\ Unlocked(mu)
    /\ mu' = <<b>>
    /\ pc' = [pc EXCEPT ![b] = "crit"]
    /\ UNCHANGED <<inputVars, progressLog, regionVars, ctxVars, listVars, nestedVars, retVars, phase,
                   lookupFailed, winfo, semaphore, current, bucketInfo,
                   nonBatch>>

\* a worker that keeps its record to itself
storeResult_skip(m, bucket, info) == m

\* bucketInfo[bucket] = info
storeResult(m, bucket, info) == (bucket :> info) @@ m

\* worker: current++; i.reportProgress(current, total, ...); bucketInfo[bucket] = info;
\* mu.Unlock()
Store(b) ==
    /\ phase = "workers"
    /\ b \in DOMAIN pc
    /\ pc[b] = "crit"
    /\ current' = current + 1
    /\ progressLog' = reportProgress(progressLog, current + 1, Cardinality(DOMAIN pc), b)
    /\ bucketInfo' = storeResult(bucketInfo, b, winfo[b])
    /\ mu' = <<>>
    /\ pc' = [pc EXCEPT ![b] = "unlocked"]
    /\ UNCHANGED <<inputVars, regionVars, ctxVars, listVars, nestedVars, retVars, phase,
                   lookupFailed, winfo, semaphore,
                   nonBatch>>

\* worker, first deferred call: <-semaphore
Release(b) ==
    /\ phase = "workers"
    /\ b \in DOMAIN pc
    /\ pc[b] = "unlocked"
    /\ semaphore' = semaphore - 1
    /\ pc' = [pc EXCEPT ![b] = "released"]
    /\ UNCHANGED <<inputVars, progressLog, regionVars, ctxVars, listVars, nestedVars, retVars, phase,
                   lookupFailed, winfo, mu, current, bucketInfo, nonBatch>>

\* worker, last deferred call: wg.Done()
Done(b) ==
    /\ phase = "workers"
    /\ b \in DOMAIN pc
    /\ pc[b] = "released"
    /\ pc' = [pc EXCEPT ![b] = "done"]
    /\ UNCHANGED <<inputVars, progressLog, regionVars, ctxVars, listVars, nestedVars, retVars, phase,
                   lookupFailed, winfo, semaphore, mu, current, bucketInfo, nonBatch>>

\* wg.Wait() returns; return bucketInfo, nil
Return ==
    /\ phase = "workers"
    /\ \A b \in DOMAIN pc : pc[b] = "done"
    /\ phase' = "returned"
    /\ retMap' = bucketInfo
    /\ retErr' = ""
    /\ UNCHANGED <<inputVars, progressLog, regionVars, ctxVars, listVars, nestedVars, lookupFailed,
                   pc, winfo, semaphore, mu, current, bucketInfo,
                   nonBatch>>

RegionInputs == {<<>>, <<OtherRegion>>}

BatchNext ==
    \/ ResolveRegions
    \/ ListBucketsFails
    \/ ListBuckets
    \/ ListedBucketRegion
    \/ StartWorkers
    \/ \E b \in Buckets : Acquire(b)
    \/ \E b \in Buckets : GetBucketRegion(b)
    \/ \E b \in Buckets : GetBucketVersioning(b)
    \/ \E b \in Buckets : GetBucketLifecycleConfiguration(b)
    \/ \E b \in Buckets : GetBucketTagging(b)
    \/ \E b \in Buckets : ListObjectsV2(b)
    \/ \E b \in Buckets : CalculateVersionSizes(b)
    \/ \E b \in Buckets, p \in 1..Len(refs) : NAcquire(b, p)
    \/ \E b \in Buckets, p \in 1..Len(refs) : NInspect(b, p)
    \/ \E b \in Buckets, p \in 1..Len(refs) : NLock(b, p)
    \/ \E b \in Buckets, p \in 1..Len(refs) : NAppend(b, p)
    \/ \E b \in Buckets, p \in 1..Len(refs) : NRelease(b, p)
    \/ \E b \in Buckets, p \in 1..Len(refs) : NDone(b, p)
    \/ \E b \in Buckets : Join(b)
    \/ \E b \in Buckets : Lock(b)
    \/ \E b \in Buckets : Store(b)
    \/ \E b \in Buckets : Release(b)
    \/ \E b \in Buckets : Done(b)
    \/ Return

----------------------------------------------------------------------------
(* The analyzer: internal/analyzer                                          *)

StatusOK == "OK"
StatusMissingBucket == "MISSING_BUCKET"
StatusUnusedBucket == "UNUSED_BUCKET"
StatusMissingPrefix == "MISSING_PREFIX"
StatusStalePrefix == "STALE_PREFIX"
StatusVersionSprawl == "VERSION_SPRAWL"
StatusLifecycleMisconfig == "LIFECYCLE_MISCONFIG"
StatusRisky == "RISKY"
StatusInactive == "INACTIVE"

UpperLetters == "ABCDEFGHIJKLMNOPQRSTUVWXYZ"
LowerLetters == "abcdefghijklmnopqrstuvwxyz"

\* unicode.ToLower of one character (a string of length 1) of the ASCII range
lowerChar(c) ==
    IF \E i \in 1..Len(UpperLetters) : SubSeq(UpperLetters, i, i) = c
    THEN LET i == CHOOSE j \in 1..Len(UpperLetters) : SubSeq(UpperLetters, j, j) = c
         IN  SubSeq(LowerLetters, i, i)
    ELSE c

RECURSIVE ToLower(_)
\* strings.ToLower: every upper-case letter replaced by its lower-case letter
ToLower(str) ==
    IF str = "" THEN ""
    ELSE lowerChar(SubSeq(str, 1, 1)) \o ToLower(SubSeq(str, 2, Len(str)))

TagKeys == {"env", "Old"}
TagValues == {"older", "Deprecated", "RETIRED"}
TagMaps == UNION {[ks -> TagValues] : ks \in SUBSET TagKeys}

\* deprecatedTags of calculateUnusedScore
ScanDeprecatedTags == {"deprecated", "old", "unused", "delete", "obsolete", "legacy"}

DefaultUnusedThreshold == 150
NotInCodePoints == 100
EmptyPoints == 50
DeprecatedTagPoints == 20
LargePrefixObjects == 100

\* one tag of the range loop of calculateUnusedScore: does it match a marker term
tagMatches(key, value, terms) == ToLower(key) \in terms \/ ToLower(value) \in terms

RECURSIVE firstMatch(_, _, _, _)
\* the first tag, in iteration order, that matches: 0 when none does
firstMatch(tags, order, i, terms) ==
    IF i > Len(order) THEN 0
    ELSE IF tagMatches(order[i], tags[order[i]], terms) THEN i
    ELSE firstMatch(tags, order, i + 1, terms)

\* calculateUnusedScore; order is the order in which range visits info.Tags
calculateUnusedScore(bucket, info, referencedBuckets, config, order) ==
    LET threshold == IF config.UnusedScoreThreshold <= 0 THEN DefaultUnusedThreshold
                     ELSE config.UnusedScoreThreshold
        notInCode == IF bucket \notin referencedBuckets THEN NotInCodePoints ELSE 0
        empty == IF info.IsEmpty THEN EmptyPoints ELSE 0
        hit == firstMatch(info.Tags, order, 1, ScanDeprecatedTags)
        deprecated == IF hit > 0 THEN DeprecatedTagPoints ELSE 0
        total == notInCode + empty + deprecated
    IN  [Total |-> total,
         Reasons |-> (IF notInCode > 0 THEN <<"Not referenced in code">> ELSE <<>>)
                     \o (IF empty > 0 THEN <<"Bucket is empty">> ELSE <<>>)
                     \o (IF hit > 0 THEN <<<<"Has deprecated tag", order[hit], info.Tags[order[hit]]>>>>
                         ELSE <<>>),
         IsUnused |-> total >= threshold,
         NotInCode |-> notInCode, Empty |-> empty, OldBucket |-> 0,
         DeprecatedTag |-> deprecated]

\* the stale test with the threshold itself counted as stale
prefixStatus_atThreshold(prefix, config) ==
    IF ~prefix.Exists THEN StatusMissingPrefix
    ELSE IF prefix.DaysSinceModified >= config.StaleThresholdDays THEN StatusStalePrefix
    ELSE StatusOK

\* analyzePrefixes: the status of one PrefixInfo
prefixStatus(prefix, config) ==
    IF ~prefix.Exists THEN StatusMissingPrefix
    ELSE IF prefix.DaysSinceModified > config.StaleThresholdDays THEN StatusStalePrefix
    ELSE StatusOK

\* analyzePrefixes: one PrefixAnalysis per PrefixInfo, in order
analyzePrefixes(prefixes, config) ==
    [i \in DOMAIN prefixes |->
        [Prefix |-> prefixes[i].Prefix, Status |-> prefixStatus(prefixes[i], config),
         ObjectCount |-> prefixes[i].ObjectCount,
         DaysSinceModified |-> prefixes[i].DaysSinceModified]]

hasLargePrefix_atLeast(prefixes) == \E i \in DOMAIN prefixes : prefixes[i].ObjectCount >= LargePrefixObjects

hasLargePrefix(prefixes) == \E i \in DOMAIN prefixes : prefixes[i].ObjectCount > LargePrefixObjects

NoScore == <<>>

\* analyzeBucket with the unused check ahead of the existence check
analyzeBucket_unusedFirst(bucket, info, config, referencedBuckets, order) ==
    LET score == calculateUnusedScore(bucket, info, referencedBuckets, config, order)
        base == [Name |-> bucket, Status |-> "", ReferencedInCode |-> bucket \in referencedBuckets,
                 ExistsInAWS |-> info.Exists, VersioningEnabled |-> info.VersioningEnabled,
                 LifecycleRules |-> info.LifecycleRules, Prefixes |-> <<>>,
                 UnusedScore |-> NoScore]
    IN  IF config.CheckUnused /\ score.IsUnused
        THEN [base EXCEPT !.Status = StatusUnusedBucket, !.UnusedScore = score]
        ELSE IF ~info.Exists THEN [base EXCEPT !.Status = StatusMissingBucket]
        ELSE [base EXCEPT !.Status = StatusOK]

\* the version-sprawl test passed only by containers that hold objects
versionSprawl_nonEmpty(info) ==
    info.VersioningEnabled /\ info.LifecycleRules = 0 /\ ~info.IsEmpty

\* analyzeBucket: "Check for version sprawl"
versionSprawl(info) == info.VersioningEnabled /\ info.LifecycleRules = 0

\* analyzeBucket
analyzeBucket(bucket, info, config, referencedBuckets, order) ==
    LET base == [Name |-> bucket, Status |-> "", ReferencedInCode |-> bucket \in referencedBuckets,
                 ExistsInAWS |-> info.Exists, VersioningEnabled |-> info.VersioningEnabled,
                 LifecycleRules |-> info.LifecycleRules, Prefixes |-> <<>>,
                 UnusedScore |-> NoScore]
        score == calculateUnusedScore(bucket, info, referencedBuckets, config, order)
        scored == IF config.CheckUnused THEN [base EXCEPT !.UnusedScore = score] ELSE base
        sprawl == versionSprawl(info)
        withPrefixes == IF Len(info.Prefixes) > 0
                        THEN [scored EXCEPT !.Prefixes = analyzePrefixes(info.Prefixes, config)]
                        ELSE scored
    IN  IF ~info.Exists THEN [base EXCEPT !.Status = StatusMissingBucket]
        ELSE IF config.CheckUnused /\ score.IsUnused
             THEN [scored EXCEPT !.Status = StatusUnusedBucket]
        ELSE IF sprawl THEN [withPrefixes EXCEPT !.Status = StatusVersionSprawl]
        ELSE IF info.LifecycleRules = 0 /\ Len(info.Prefixes) > 0 /\ hasLargePrefix(info.Prefixes)
             THEN [withPrefixes EXCEPT !.Status = StatusLifecycleMisconfig]
        ELSE [withPrefixes EXCEPT !.Status = StatusOK]

\* referencedBuckets of Analyze
referencedSet(rs) == {rs[i].Bucket : i \in DOMAIN rs}

\* the orders in which a range loop can visit the keys of a map
Orders(S) == {o \in [1..Cardinality(S) -> S] : \A i, j \in DOMAIN o : i # j => o[i] # o[j]}

----------------------------------------------------------------------------
(* AnalyzeSpec: analyzeBucket on one container                              *)

MaxPrefixInfos == 2
StaleDays == 90
PrefixInfoInputs ==
    {[Prefix |-> "p1", Exists |-> FALSE, ObjectCount |-> 0, DaysSinceModified |-> 0],
     [Prefix |-> "p1", Exists |-> TRUE, ObjectCount |-> 100, DaysSinceModified |-> 90],
     [Prefix |-> "p2", Exists |-> TRUE, ObjectCount |-> 101, DaysSinceModified |-> 91]}
InfoInputs ==
    {[ZeroInfo("b1") EXCEPT !.Exists = e, !.VersioningEnabled = v, !.LifecycleRules = l,
                            !.Tags = t, !.IsEmpty = m, !.Prefixes = ps] :
        e \in BOOLEAN, v \in BOOLEAN, l \in {0, 1}, t \in TagMaps, m \in BOOLEAN,
        ps \in SeqsUpTo(PrefixInfoInputs, MaxPrefixInfos)}
ThresholdInputs == {-1, 0, 50, 120, 170}
ConfigInputs ==
    {[StaleThresholdDays |-> StaleDays, CheckUnused |-> c, UnusedScoreThreshold |-> t] :
        c \in BOOLEAN, t \in ThresholdInputs}
AnalyzeRefInputs == {<<>>, <<Reference("b1", "p1")>>, <<Reference("b2", "")>>}

AnalyzeInit ==
    /\ aBucket = "b1"
    /\ aInfo \in InfoInputs
    /\ aRefs \in AnalyzeRefInputs
    /\ aConfig \in ConfigInputs
    /\ aResult = <<>>

\* Analyze's call of analyzeBucket for the container
RunAnalyzeBucket ==
    /\ aResult = <<>>
    /\ \E order \in Orders(DOMAIN aInfo.Tags) :
          aResult' = analyzeBucket(aBucket, aInfo, aConfig, referencedSet(aRefs), order)
    /\ UNCHANGED <<aBucket, aInfo, aRefs, aConfig, batchVars, bucketVars, cmdVars, moreVars>>

AnalyzeNext == RunAnalyzeBucket

NoResult == <<>>
RerunIdle == dInfo = <<>> /\ dOut1 = NoResult /\ dOut2 = NoResult
RetryIdle ==
    /\ rPc = "idle" /\ rAttempt = 0 /\ rErrs = <<>> /\ rWaits = <<>> /\ rTimer = FALSE
    /\ rRet = "" /\ rDone = FALSE /\ rCancelCalls = -1
DiffIdle == fCurrent = <<>> /\ fBaseline = <<>> /\ fResult = <<>>
VersionIdle ==
    /\ vServerPages = 0 /\ keyMarker = 0 /\ iteration = 0 /\ totalVersionSize = 0
    /\ versionCount = 0 /\ vAccumulated = <<>> /\ vInfo = <<>>
ExtraIdle == DiffIdle /\ VersionIdle
MoreIdle == RerunIdle /\ RetryIdle /\ ExtraIdle

OtherInit ==
    /\ MoreIdle
    /\ bmode = "" /\ bpc = "" /\ binfo = NoInfo /\ bissued = {} /\ bfailed = {}
    /\ cmdPc = "" /\ cmdErr = "" /\ analysis = <<>> /\ gates = {}
    /\ aBucket = "" /\ aInfo = NoInfo /\ aRefs = <<>> /\ aConfig = <<>> /\ aResult = <<>>

BatchSpecInit == BatchInit /\ OtherInit

BatchSpec == BatchSpecInit /\ [][BatchNext]_vars

BatchIdle ==
    /\ mode = "" /\ supplied = 0 /\ concurrency = 0 /\ regions = <<>> /\ allRegions = FALSE
    /\ refs = <<>> /\ phase = "" /\ cancelled = FALSE /\ cancelAt = "" /\ awsBuckets = {}
    /\ bucketRegions = <<>> /\ lookupFailed = {} /\ failedCalls = {} /\ resolved = <<>> /\ pc = <<>> /\ winfo = <<>> /\ npc = <<>>
    /\ ninfo = <<>> /\ nmu = <<>> /\ nresults = <<>> /\ semaphore = 0 /\ nsemaphore = <<>>
    /\ mu = <<>> /\ current = 0 /\ bucketInfo = <<>> /\ retMap = NoMap /\ retErr = ""
    /\ progressCallback = FALSE /\ progressLog = <<>> /\ faults = 0
BucketIdle == bmode = "" /\ bpc = "" /\ binfo = NoInfo /\ bissued = {} /\ bfailed = {}
CmdIdle == cmdPc = "" /\ cmdErr = "" /\ analysis = <<>> /\ gates = {}

AnalyzeSpecInit == AnalyzeInit /\ BatchIdle /\ BucketIdle /\ CmdIdle /\ MoreIdle

AnalyzeSpec == AnalyzeSpecInit /\ [][AnalyzeNext]_vars

----------------------------------------------------------------------------
(* RegionSpec: the batch of an Inspector whose region configuration is set  *)
(* through SetRegions / SetAllRegions.  The setters take no lock and test   *)
(* nothing, so a caller may run them at any moment, also while a batch is   *)
(* under way; determineRegions reads the two fields once, at the start.     *)

MaxRegionRefs == 1
RegionWidths == {0, 1}

RegionSpecInit ==
    /\ BatchInitWith({"inspect", "discover"}, RegionWidths, RefLists(MaxRegionRefs))
    /\ OtherInit

RegionNext ==
    \/ \E r \in RegionInputs : SetRegions(r)
    \/ \E enabled \in BOOLEAN : SetAllRegions(enabled)
    \/ ResolveRegions
    \/ ListBucketsFails
    \/ ListBuckets
    \/ ListedBucketRegion
    \/ StartWorkers
    \/ \E b \in Buckets : Acquire(b)
    \/ \E b \in Buckets : GetBucketRegion(b)
    \/ \E b \in Buckets : GetBucketVersioning(b)
    \/ \E b \in Buckets : GetBucketLifecycleConfiguration(b)
    \/ \E b \in Buckets : GetBucketTagging(b)
    \/ \E b \in Buckets : ListObjectsV2(b)
    \/ \E b \in Buckets : CalculateVersionSizes(b)
    \/ \E b \in Buckets, p \in 1..Len(refs) : NAcquire(b, p)
    \/ \E b \in Buckets, p \in 1..Len(refs) : NInspect(b, p)
    \/ \E b \in Buckets, p \in 1..Len(refs) : NLock(b, p)
    \/ \E b \in Buckets, p \in 1..Len(refs) : NAppend(b, p)
    \/ \E b \in Buckets, p \in 1..Len(refs) : NRelease(b, p)
    \/ \E b \in Buckets, p \in 1..Len(refs) : NDone(b, p)
    \/ \E b \in Buckets : Join(b)
    \/ \E b \in Buckets : Lock(b)
    \/ \E b \in Buckets : Store(b)
    \/ \E b \in Buckets : Release(b)
    \/ \E b \in Buckets : Done(b)
    \/ Return

RegionSpec == RegionSpecInit /\ [][RegionNext]_vars

----------------------------------------------------------------------------
(* ProgressSpec: the batch of an Inspector whose progress callback is set   *)
(* or cleared through SetProgressCallback, which like the other setters     *)
(* may run at any moment.                                                   *)

MaxProgressRefs == 2
ProgressWidths == {0, 1}

ProgressSpecInit ==
    /\ BatchInitWith({"inspect", "discover"}, ProgressWidths, RefLists(MaxProgressRefs))
    /\ OtherInit

ProgressNext ==
    \/ \E callback \in BOOLEAN : SetProgressCallback(callback)
    \/ ResolveRegions
    \/ ListBucketsFails
    \/ ListBuckets
    \/ ListedBucketRegion
    \/ StartWorkers
    \/ \E b \in Buckets : Acquire(b)
    \/ \E b \in Buckets : GetBucketRegion(b)
    \/ \E b \in Buckets : GetBucketVersioning(b)
    \/ \E b \in Buckets : GetBucketLifecycleConfiguration(b)
    \/ \E b \in Buckets : GetBucketTagging(b)
    \/ \E b \in Buckets : ListObjectsV2(b)
    \/ \E b \in Buckets : CalculateVersionSizes(b)
    \/ \E b \in Buckets, p \in 1..Len(refs) : NAcquire(b, p)
    \/ \E b \in Buckets, p \in 1..Len(refs) : NInspect(b, p)
    \/ \E b \in Buckets, p \in 1..Len(refs) : NLock(b, p)
    \/ \E b \in Buckets, p \in 1..Len(refs) : NAppend(b, p)
    \/ \E b \in Buckets, p \in 1..Len(refs) : NRelease(b, p)
    \/ \E b \in Buckets, p \in 1..Len(refs) : NDone(b, p)
    \/ \E b \in Buckets : Join(b)
    \/ \E b \in Buckets : Lock(b)
    \/ \E b \in Buckets : Store(b)
    \/ \E b \in Buckets : Release(b)
    \/ \E b \in Buckets : Done(b)
    \/ Return

ProgressSpec == ProgressSpecInit /\ [][ProgressNext]_vars

----------------------------------------------------------------------------
(* BucketSpec: inspectBucket / inspectBucketFull of one container, one      *)
(* WithRetry-wrapped remote call per step.  bissued collects the calls      *)
(* made, bfailed those that WithRetry returned an error for.                *)

SecondaryCalls == {"versioning", "lifecycle", "tagging", "listing"}

\* what WithRetry returns for the closure's error: the closures of the
\* lifecycle and tagging calls turn "no configuration" into nil
closureError(out) ==
    IF out.err \in {ErrNoSuchLifecycle, ErrNoSuchTagSet} THEN "" ELSE out.err

BucketInit ==
    /\ bmode \in {"inspect", "discover"}
    /\ \E b \in Buckets :
          IF bmode = "inspect"
          THEN binfo = ZeroInfo(b) /\ bpc = "location"
          ELSE \E region \in {HomeRegion(b), DefaultRegion}, metadata \in MetadataInputs(b) :
                  binfo = fullStart(b, region, metadata) /\ bpc = "versioning"
    /\ bissued = {}
    /\ bfailed = {}

BucketUnchanged == UNCHANGED <<bmode, batchVars, cmdVars, anaVars, moreVars>>

\* inspectBucket: getBucketRegion
BLocation ==
    /\ bpc = "location"
    /\ \E out \in LocationOutcomes(binfo.Name) :
          IF out.err # ""
          THEN /\ binfo' = locationFailed(binfo.Name, out.err)
               /\ bpc' = "done"
          ELSE /\ binfo' = locationFound(binfo.Name, out.val)
               /\ bpc' = "versioning"
    /\ bissued' = bissued \cup {"location"}
    /\ bfailed' = bfailed
    /\ BucketUnchanged

\* GetBucketVersioning
BVersioning ==
    /\ bpc = "versioning"
    /\ \E out \in VersioningOutcomes :
          /\ binfo' = IF bmode = "inspect" THEN applyVersioning(binfo, out)
                      ELSE applyVersioningFull(binfo, out)
          /\ bfailed' = IF closureError(out) # "" THEN bfailed \cup {"versioning"} ELSE bfailed
    /\ bissued' = bissued \cup {"versioning"}
    /\ bpc' = "lifecycle"
    /\ BucketUnchanged

\* GetBucketLifecycleConfiguration
BLifecycle ==
    /\ bpc = "lifecycle"
    /\ \E out \in LifecycleOutcomes :
          /\ binfo' = applyLifecycle(binfo, out)
          /\ bfailed' = IF closureError(out) # "" THEN bfailed \cup {"lifecycle"} ELSE bfailed
    /\ bissued' = bissued \cup {"lifecycle"}
    /\ bpc' = "tagging"
    /\ BucketUnchanged

\* GetBucketTagging
BTagging ==
    /\ bpc = "tagging"
    /\ \E out \in TaggingOutcomes :
          /\ binfo' = applyTagging(binfo, out)
          /\ bfailed' = IF closureError(out) # "" THEN bfailed \cup {"tagging"} ELSE bfailed
    /\ bissued' = bissued \cup {"tagging"}
    /\ bpc' = "listing"
    /\ BucketUnchanged

\* ListObjectsV2
BListing ==
    /\ bpc = "listing"
    /\ \E out \in ListingOutcomes :
          /\ binfo' = IF bmode = "inspect" THEN applyListing(binfo, out)
                      ELSE applyListingFull(binfo, out)
          /\ bfailed' = IF closureError(out) # "" THEN bfailed \cup {"listing"} ELSE bfailed
    /\ bissued' = bissued \cup {"listing"}
    /\ bpc' = IF bmode = "discover" /\ binfo.VersioningEnabled THEN "versions" ELSE "done"
    /\ BucketUnchanged

\* inspectBucketFull: calculateVersionSizes
BVersionSizes ==
    /\ bpc = "versions"
    /\ \E out \in VersionSizeOutcomes :
          /\ binfo' = applyVersionSizes(binfo, out)
          /\ bfailed' = bfailed
    /\ bissued' = bissued \cup {"versions"}
    /\ bpc' = "done"
    /\ BucketUnchanged

BucketNext ==
    \/ BLocation
    \/ BVersioning
    \/ BLifecycle
    \/ BTagging
    \/ BListing
    \/ BVersionSizes

AnaIdle ==
    aBucket = "" /\ aInfo = NoInfo /\ aRefs = <<>> /\ aConfig = <<>> /\ aResult = <<>>

BucketSpecInit == BucketInit /\ BatchIdle /\ CmdIdle /\ AnaIdle /\ MoreIdle

BucketSpec == BucketSpecInit /\ [][BucketNext]_vars

----------------------------------------------------------------------------
(* CommandSpec: runScan, from the repository scan to the exit conditions,   *)
(* with the context of --timeout.                                           *)

MaxCmdRefs == 1

\* the "bucket/prefix" paths of one bucket's prefixes with the given status, in order
prefixPaths(bucketAnalysis, bucket, st) ==
    LET sel == SelectSeq(bucketAnalysis.Prefixes, LAMBDA p : p.Status = st)
    IN  [j \in DOMAIN sel |-> <<bucket, sel[j].Prefix>>]

RECURSIVE summaryPaths(_, _, _, _)
\* Analyze's appends to Summary.MissingPrefixes / StalePrefixes, bucket after bucket
summaryPaths(res, bucketOrder, i, st) ==
    IF i > Len(bucketOrder) THEN <<>>
    ELSE prefixPaths(res[bucketOrder[i]], bucketOrder[i], st)
             \o summaryPaths(res, bucketOrder, i + 1, st)

\* Analyze with a summary that does not list the lifecycle-misconfigured buckets
Analyze_lifecycleUnlisted(rs, info, config, bucketOrder, orders) ==
    LET res == [b \in DOMAIN info |->
                   analyzeBucket(b, info[b], config, referencedSet(rs), orders[b])]
        statusIs(st) == SelectSeq(bucketOrder, LAMBDA b : res[b].Status = st)
    IN  [Buckets |-> res,
         Summary |-> [TotalBuckets |-> Len(bucketOrder),
                      OKBuckets |-> Len(statusIs(StatusOK)),
                      MissingBuckets |-> statusIs(StatusMissingBucket),
                      UnusedBuckets |-> statusIs(StatusUnusedBucket),
                      VersionSprawl |-> statusIs(StatusVersionSprawl),
                      LifecycleMisconfig |-> <<>>,
                      MissingPrefixes |-> summaryPaths(res, bucketOrder, 1, StatusMissingPrefix),
                      StalePrefixes |-> summaryPaths(res, bucketOrder, 1, StatusStalePrefix)]]

\* Analyze: the per-bucket analyses and the summary; bucketOrder is the order in
\* which range visits bucketInfo, orders[b] the one in which it visits b's tags
Analyze(rs, info, config, bucketOrder, orders) ==
    LET res == [b \in DOMAIN info |->
                   analyzeBucket(b, info[b], config, referencedSet(rs), orders[b])]
        statusIs(st) == SelectSeq(bucketOrder, LAMBDA b : res[b].Status = st)
    IN  [Buckets |-> res,
         Summary |-> [TotalBuckets |-> Len(bucketOrder),
                      OKBuckets |-> Len(statusIs(StatusOK)),
                      MissingBuckets |-> statusIs(StatusMissingBucket),
                      UnusedBuckets |-> statusIs(StatusUnusedBucket),
                      VersionSprawl |-> statusIs(StatusVersionSprawl),
                      LifecycleMisconfig |-> statusIs(StatusLifecycleMisconfig),
                      MissingPrefixes |-> summaryPaths(res, bucketOrder, 1, StatusMissingPrefix),
                      StalePrefixes |-> summaryPaths(res, bucketOrder, 1, StatusStalePrefix)]]

\* the iteration orders of the Tags map of every record of a metadata map
TagOrders(info) ==
    {o \in [DOMAIN info -> UNION {Orders(DOMAIN info[b].Tags) : b \in DOMAIN info}] :
        \A b \in DOMAIN info : o[b] \in Orders(DOMAIN info[b].Tags)}

\* exit conditions that fail on a stale prefix whether or not the flag is set
exitConditions_staleAlways(flags, summary) ==
    IF "failOnMissing" \in flags /\ Len(summary.MissingBuckets) > 0 THEN "found missing buckets"
    ELSE IF Len(summary.StalePrefixes) > 0 THEN "found stale prefixes"
    ELSE IF "failOnVersionSprawl" \in flags /\ Len(summary.VersionSprawl) > 0
         THEN "found buckets with version sprawl"
    ELSE IF "failOnUnused" \in flags /\ Len(summary.UnusedBuckets) > 0 THEN "found unused buckets"
    ELSE ""

\* runScan, "Check exit conditions": the error returned, "" for nil
exitConditions(flags, summary) ==
    IF "failOnMissing" \in flags /\ Len(summary.MissingBuckets) > 0 THEN "found missing buckets"
    ELSE IF "failOnStale" \in flags /\ Len(summary.StalePrefixes) > 0 THEN "found stale prefixes"
    ELSE IF "failOnVersionSprawl" \in flags /\ Len(summary.VersionSprawl) > 0
         THEN "found buckets with version sprawl"
    ELSE IF "failOnUnused" \in flags /\ Len(summary.UnusedBuckets) > 0 THEN "found unused buckets"
    ELSE ""

ScanFlags == {"failOnMissing", "failOnStale", "failOnVersionSprawl", "failOnUnused"}

\* the error returns of runScan / runDiscover between the analysis and the exit
\* conditions ("" when every step succeeds)
ReportOutcomes ==
    {"", "output file creation", "unsupported output format", "report generation",
     "baseline load", "baseline write"}

\* <<outcome, flags>>: the flags matter only when the exit conditions are reached
ExitInputs(allFlags) ==
    {<<"", flags>> : flags \in SUBSET allFlags}
        \cup {<<io, {}>> : io \in ReportOutcomes \ {""}}

CommandWidths == {0, 1}

\* runScan after the flags are read and the context with the deadline is made
CommandInit ==
    /\ mode = "inspect"
    /\ supplied \in CommandWidths
    /\ concurrency = 0 /\ regions = <<>> /\ allRegions = FALSE
    /\ refs = <<>> /\ phase = "" /\ cancelled = FALSE /\ cancelAt = "" /\ awsBuckets = {}
    /\ bucketRegions = <<>> /\ lookupFailed = {} /\ failedCalls = {} /\ resolved = <<>>
    /\ pc = <<>> /\ winfo = <<>> /\ npc = <<>> /\ ninfo = <<>> /\ nmu = <<>> /\ nresults = <<>>
    /\ semaphore = 0 /\ nsemaphore = <<>> /\ mu = <<>> /\ current = 0 /\ bucketInfo = <<>>
    /\ retMap = NoMap /\ retErr = "" /\ progressCallback = FALSE /\ progressLog = <<>>
    /\ faults = 0
    /\ cmdPc = "scan"
    /\ cmdErr = ""
    /\ analysis = <<>>
    /\ gates = {}
    /\ BucketIdle
    /\ AnaIdle
    /\ MoreIdle

\* the deadline of context.WithTimeout passes before runScan has returned
Cancel ==
    /\ cmdPc \in {"scan", "client", "configure", "inspect"}
    /\ phase \in {"", "config", "listing", "locating", "workers"}
    /\ ~cancelled
    /\ cancelled' = TRUE
    /\ cancelAt' = IF cmdPc # "inspect" THEN "before"
                   ELSE IF phase # "workers" THEN phase
                   ELSE IF \E b \in DOMAIN pc : ~Past(pc[b]) THEN "collecting"
                   ELSE "collected"
    /\ UNCHANGED <<inputVars, progressLog, regionVars, listVars, nestedVars, retVars, phase, lookupFailed,
                   pc, winfo, semaphore, mu, current, bucketInfo, nonBatch>>

\* runScan step 1: repoScanner.Scan; an error ends the command
ScanRepository ==
    /\ cmdPc = "scan"
    /\ \/ /\ \E rs \in RefLists(MaxCmdRefs) : refs' = rs
          /\ cmdPc' = "client"
          /\ cmdErr' = cmdErr
       \/ /\ refs' = refs
          /\ cmdPc' = "exit"
          /\ cmdErr' = "repository scan failed"
    /\ UNCHANGED <<mode, supplied, concurrency, progressCallback, progressLog, regionVars, ctxVars,
                   listVars, nestedVars, retVars, phase, lookupFailed, pc, winfo, semaphore,
                   mu, current, bucketInfo, bucketVars, anaVars, moreVars, analysis, gates>>

\* runScan step 2: s3.NewClient; an error ends the command
NewClient ==
    /\ cmdPc = "client"
    /\ \E ok \in BOOLEAN :
          IF ok THEN cmdPc' = "configure" /\ cmdErr' = cmdErr
          ELSE cmdPc' = "exit" /\ cmdErr' = "S3 client initialization failed"
    /\ UNCHANGED <<batchVars, bucketVars, anaVars, moreVars, analysis, gates>>

\* runScan step 3: NewInspector, and the inspector is configured from the flags
\* --regions, --all-regions and from showProgress
ScanConfigure ==
    /\ cmdPc = "configure"
    /\ \E regionsFlag \in RegionInputs, allRegionsFlag \in BOOLEAN, showProgress \in BOOLEAN :
          /\ IF Len(regionsFlag) > 0
             THEN /\ regions' = setRegions(regionsFlag)[1]
                  /\ allRegions' = setRegions(regionsFlag)[2]
             ELSE IF allRegionsFlag
                  THEN /\ regions' = setAllRegions(regions, TRUE)[1]
                       /\ allRegions' = setAllRegions(regions, TRUE)[2]
                  ELSE UNCHANGED <<regions, allRegions>>
          /\ progressCallback' = IF showProgress THEN TRUE ELSE progressCallback
    /\ concurrency' = NewInspector(supplied)
    /\ phase' = "config"
    /\ cmdPc' = "inspect"
    /\ UNCHANGED <<mode, supplied, refs, progressLog, ctxVars, listVars, nestedVars,
                   retVars, lookupFailed, pc, winfo, semaphore, mu, current, bucketInfo,
                   bucketVars, anaVars, moreVars, cmdErr, analysis, gates>>

\* runScan: InspectBuckets returned an error
ScanInspectFailed ==
    /\ cmdPc = "inspect"
    /\ phase = "returned"
    /\ retErr # ""
    /\ cmdErr' = "S3 inspection failed"
    /\ cmdPc' = "exit"
    /\ UNCHANGED <<batchVars, bucketVars, anaVars, moreVars, analysis, gates>>

\* runScan: InspectBuckets returned a map; Analyze
ScanAnalyze ==
    /\ cmdPc = "inspect"
    /\ mode = "inspect"
    /\ phase = "returned"
    /\ retErr = ""
    /\ \E checkUnused \in BOOLEAN : \E bucketOrder \in Orders(DOMAIN retMap) :
       \E orders \in TagOrders(retMap) :
          analysis' = Analyze(refs, retMap,
                              [StaleThresholdDays |-> StaleDays, CheckUnused |-> checkUnused,
                               UnusedScoreThreshold |-> DefaultUnusedThreshold],
                              bucketOrder, orders)
    /\ cmdPc' = "report"
    /\ UNCHANGED <<batchVars, bucketVars, anaVars, moreVars, cmdErr, gates>>

\* runScan: the report is written, the baseline compared and rewritten, and the
\* exit conditions are checked
ScanExit ==
    /\ cmdPc = "report"
    /\ mode = "inspect"
    /\ \E in \in ExitInputs(ScanFlags) :
          /\ gates' = in[2]
          /\ cmdErr' = IF in[1] # "" THEN in[1] ELSE exitConditions(in[2], analysis.Summary)
    /\ cmdPc' = "exit"
    /\ UNCHANGED <<batchVars, bucketVars, anaVars, moreVars, analysis>>

----------------------------------------------------------------------------
(* The discovery analyzer: analyzeBucketDiscovery.  A *EncryptionInfo or    *)
(* *PublicAccessInfo is a sequence: <<>> for nil, <<record>> otherwise.     *)

DiscoveryDeprecatedTags ==
    {"deprecated", "old", "unused", "delete", "obsolete", "legacy", "retired"}

\* hasDeprecatedTags (a nil map ranges like an empty one)
hasDeprecatedTags(tags) ==
    \E key \in DOMAIN tags : tagMatches(key, tags[key], DiscoveryDeprecatedTags)

DefaultRiskThreshold == 100
AgePoints == 20
InactivityPoints == 50
EmptyBucketPoints == 30
DeprecatedTagsPoints == 20
VersionSprawlPoints == 30
NoEncryptionPoints == 40
PublicAccessPoints == 60

\* a factor: <<points, text>> when its condition holds, nothing otherwise
factor(cond, points, text) == IF cond THEN <<<<points, text>>>> ELSE <<>>

\* Factor 2 with the "threshold > 0" test left out
inactivityFactor_anyThreshold(info, config) ==
    factor(info.DaysSinceActivity > config.InactivityThresholdDays,
           InactivityPoints, "No activity")

\* Factor 2: inactivity
inactivityFactor(info, config) ==
    factor(info.DaysSinceActivity > config.InactivityThresholdDays
               /\ config.InactivityThresholdDays > 0,
           InactivityPoints, "No activity")

\* the factors of analyzeBucketDiscovery that fire, in source order
riskFactors(info, config) ==
    factor(info.AgeInDays > config.AgeThresholdDays /\ config.AgeThresholdDays > 0,
           AgePoints, "Old bucket")
    \o inactivityFactor(info, config)
    \o factor(info.IsEmpty, EmptyBucketPoints, "Empty bucket")
    \o factor(hasDeprecatedTags(info.Tags), DeprecatedTagsPoints, "Has deprecated tags")
    \o factor(info.VersioningEnabled /\ info.LifecycleRules = 0,
              VersionSprawlPoints, "Versioning enabled without lifecycle rules")
    \o factor(config.CheckEncryption /\ info.Encryption # <<>> /\ ~info.Encryption[1].Enabled,
              NoEncryptionPoints, "No encryption enabled")
    \o factor(config.CheckPublicAccess /\ info.PublicAccess # <<>> /\ info.PublicAccess[1].IsPublic,
              PublicAccessPoints, "Public access enabled")

RECURSIVE sumPoints(_, _)
\* discovery.RiskScore += points, factor after factor
sumPoints(fs, i) == IF i > Len(fs) THEN 0 ELSE fs[i][1] + sumPoints(fs, i + 1)

\* the status chain with version sprawl tested ahead of unused
discoveryStatus_sprawlFirst(info, config) ==
    IF info.VersioningEnabled /\ info.LifecycleRules = 0 THEN StatusVersionSprawl
    ELSE IF info.IsEmpty /\ (info.DaysSinceActivity > config.InactivityThresholdDays
                                \/ info.DaysSinceActivity = 0)
         THEN StatusUnusedBucket
    ELSE IF info.DaysSinceActivity > config.InactivityThresholdDays THEN StatusInactive
    ELSE StatusRisky

\* analyzeBucketDiscovery: the status of a record whose score reached the threshold
discoveryStatus(info, config) ==
    IF info.IsEmpty /\ (info.DaysSinceActivity > config.InactivityThresholdDays
                           \/ info.DaysSinceActivity = 0)
    THEN StatusUnusedBucket
    ELSE IF info.VersioningEnabled /\ info.LifecycleRules = 0 THEN StatusVersionSprawl
    ELSE IF info.DaysSinceActivity > config.InactivityThresholdDays THEN StatusInactive
    ELSE StatusRisky

\* analyzeBucketDiscovery
analyzeBucketDiscovery(info, config) ==
    LET fs == riskFactors(info, config)
        score == sumPoints(fs, 1)
        threshold == IF config.RiskScoreThreshold <= 0 THEN DefaultRiskThreshold
                     ELSE config.RiskScoreThreshold
    IN  [Name |-> info.Name, Region |-> info.Region,
         Status |-> IF score >= threshold THEN discoveryStatus(info, config) ELSE StatusOK,
         RiskScore |-> score,
         RiskFactors |-> [i \in DOMAIN fs |-> fs[i][2]]]

----------------------------------------------------------------------------
(* DiscoverySpec: analyzeBucketDiscovery on one record                      *)

DiscoveryTagMaps == {NilTags, [k \in {"env"} |-> "older"], [k \in {"env"} |-> "RETIRED"]}
EncryptionInputs == {<<>>, <<[Enabled |-> TRUE]>>, <<[Enabled |-> FALSE]>>}
PublicAccessInputs == {<<>>, <<[IsPublic |-> TRUE]>>, <<[IsPublic |-> FALSE]>>}
DiscoveryInfoInputs ==
    {[ZeroInfo("b1") EXCEPT !.Exists = TRUE, !.Region = DefaultRegion,
                            !.AgeInDays = age, !.DaysSinceActivity = days, !.IsEmpty = m,
                            !.Tags = t, !.VersioningEnabled = v, !.LifecycleRules = l,
                            !.Encryption = enc, !.PublicAccess = pub] :
        age \in {0, 366}, days \in {0, 180, 181}, m \in BOOLEAN, t \in DiscoveryTagMaps,
        v \in BOOLEAN, l \in {0, 1}, enc \in EncryptionInputs, pub \in PublicAccessInputs}
DiscoveryConfigInputs ==
    {[AgeThresholdDays |-> a, InactivityThresholdDays |-> i, CheckEncryption |-> ce,
      CheckPublicAccess |-> cp, RiskScoreThreshold |-> t] :
        a \in {0, 365}, i \in {0, 180}, ce \in BOOLEAN, cp \in BOOLEAN,
        t \in {-1, 0, 50, 100, 130}}

DiscoveryInit ==
    /\ aBucket = "b1"
    /\ aInfo \in DiscoveryInfoInputs
    /\ aRefs = <<>>
    /\ aConfig \in DiscoveryConfigInputs
    /\ aResult = <<>>

\* AnalyzeDiscovery's call of analyzeBucketDiscovery for the record
RunAnalyzeBucketDiscovery ==
    /\ aResult = <<>>
    /\ aResult' = analyzeBucketDiscovery(aInfo, aConfig)
    /\ UNCHANGED <<aBucket, aInfo, aRefs, aConfig, batchVars, bucketVars, cmdVars, moreVars>>

DiscoveryNext == RunAnalyzeBucketDiscovery

DiscoverySpecInit == DiscoveryInit /\ BatchIdle /\ BucketIdle /\ CmdIdle /\ MoreIdle

DiscoverySpec == DiscoverySpecInit /\ [][DiscoveryNext]_vars

----------------------------------------------------------------------------
(* AnalyzeDiscovery and runDiscover from the returned map to the exit       *)
(* conditions; ExitSpec: both commands from the returned map to the exit    *)

\* AnalyzeDiscovery: the per-bucket results and the summary; bucketOrder is the
\* order in which range visits the map
AnalyzeDiscovery(buckets, config, bucketOrder) ==
    LET res == [b \in DOMAIN buckets |-> analyzeBucketDiscovery(buckets[b], config)]
        statusIs(st) == SelectSeq(bucketOrder, LAMBDA b : res[b].Status = st)
    IN  [Buckets |-> res,
         Summary |-> [TotalBuckets |-> Len(bucketOrder),
                      HealthyBuckets |-> Len(statusIs(StatusOK)),
                      UnusedBuckets |-> statusIs(StatusUnusedBucket),
                      RiskyBuckets |-> statusIs(StatusRisky),
                      InactiveBuckets |-> statusIs(StatusInactive),
                      VersionSprawl |-> statusIs(StatusVersionSprawl),
                      TotalRegions |->
                          Cardinality({buckets[b].Region : b \in DOMAIN buckets} \ {""})]]

\* runDiscover, "Check exit conditions": the error returned, "" for nil
exitConditionsDiscover(flags, summary) ==
    IF "failOnUnused" \in flags /\ Len(summary.UnusedBuckets) > 0 THEN "found unused buckets"
    ELSE IF "failOnRisky" \in flags /\ Len(summary.RiskyBuckets) > 0 THEN "found risky buckets"
    ELSE ""

DiscoverFlags == {"failOnUnused", "failOnRisky"}

DefaultAgeThresholdDays == 365
DefaultInactiveDays == 180

\* records of a discovered map, one for each status of the discovery analyzer
\* under the default thresholds: OK, unused, version sprawl, inactive, risky
DiscoveredInfo(b) ==
    LET base == [ZeroInfo(b) EXCEPT !.Exists = TRUE, !.Region = HomeRegion(b)]
        tagged == [base EXCEPT !.Tags = [k \in {"env"} |-> "RETIRED"]]
    IN  {base,
         [tagged EXCEPT !.IsEmpty = TRUE, !.VersioningEnabled = TRUE, !.AgeInDays = 366],
         [tagged EXCEPT !.ObjectCount = 1, !.DaysSinceActivity = 181,
                        !.VersioningEnabled = TRUE],
         [base EXCEPT !.ObjectCount = 1, !.DaysSinceActivity = 181,
                      !.PublicAccess = <<[IsPublic |-> TRUE]>>],
         [base EXCEPT !.ObjectCount = 1, !.DaysSinceActivity = 10,
                      !.Encryption = <<[Enabled |-> FALSE]>>,
                      !.PublicAccess = <<[IsPublic |-> TRUE]>>]}

\* the maps DiscoverAllBuckets hands to runDiscover
DiscoveredMaps ==
    UNION {{m \in [S -> UNION {DiscoveredInfo(b) : b \in S}] :
               \A b \in S : m[b] \in DiscoveredInfo(b)} : S \in SUBSET Buckets}

\* records of an inspected map, one for each classification of the scan
\* analyzer: missing, OK, version sprawl, unused when unreferenced (empty), and
\* with a stale, a missing and a large prefix
ScannedInfo(b) ==
    LET base == [ZeroInfo(b) EXCEPT !.Exists = TRUE, !.Region = HomeRegion(b),
                                    !.LifecycleRules = 1]
        pfx(e, n, d) == <<[Prefix |-> "p1", Exists |-> e, ObjectCount |-> n,
                           DaysSinceModified |-> d]>>
    IN  {ZeroInfo(b),
         base,
         [base EXCEPT !.VersioningEnabled = TRUE, !.LifecycleRules = 0],
         [base EXCEPT !.IsEmpty = TRUE],
         [base EXCEPT !.Prefixes = pfx(TRUE, 2, StaleDays + 1)],
         [base EXCEPT !.Prefixes = pfx(FALSE, 0, 0)],
         [base EXCEPT !.LifecycleRules = 0, !.Prefixes = pfx(TRUE, LargePrefixObjects + 1, 5)]}

\* the maps InspectBuckets hands to runScan
ScannedMaps ==
    UNION {{m \in [S -> UNION {ScannedInfo(b) : b \in S}] :
               \A b \in S : m[b] \in ScannedInfo(b)} : S \in SUBSET Buckets}

ExitRefInputs == {<<>>, <<Reference("b1", "p1")>>, <<Reference("b1", "p1"), Reference("b2", "p1")>>}

\* the batch after it has returned the map m to the command
Collected(md, rs, m) ==
    /\ mode = md /\ supplied = 0 /\ concurrency = NewInspector(0)
    /\ regions = <<>> /\ allRegions = FALSE /\ refs = rs /\ phase = "returned"
    /\ cancelled = FALSE /\ cancelAt = ""
    /\ retMap = m
    /\ awsBuckets = {b \in DOMAIN m : m[b].Exists}
    /\ bucketRegions = [b \in {c \in DOMAIN m : m[c].Exists} |-> HomeRegion(b)]
    /\ lookupFailed = {} /\ failedCalls = {} /\ resolved = <<DefaultRegion>>
    /\ faults = 0
    /\ pc = [b \in DOMAIN m |-> "done"]
    /\ winfo = m
    /\ npc = <<>> /\ ninfo = <<>> /\ nmu = <<>> /\ nresults = <<>> /\ semaphore = 0
    /\ nsemaphore = <<>> /\ mu = <<>> /\ current = Cardinality(DOMAIN m)
    /\ bucketInfo = m
    /\ retErr = ""
    /\ progressCallback = FALSE /\ progressLog = <<>>

\* runScan / runDiscover at the return of the collection
ExitInit ==
    /\ \/ \E rs \in ExitRefInputs, m \in ScannedMaps : Collected("inspect", rs, m)
       \/ \E m \in DiscoveredMaps : Collected("discover", <<>>, m)
    /\ cmdPc = "inspect"
    /\ cmdErr = ""
    /\ analysis = <<>>
    /\ gates = {}
    /\ BucketIdle
    /\ AnaIdle
    /\ MoreIdle

\* runDiscover: AnalyzeDiscovery with the thresholds of the flags' defaults
DiscoverAnalyze ==
    /\ cmdPc = "inspect"
    /\ mode = "discover"
    /\ phase = "returned"
    /\ retErr = ""
    /\ \E ce \in BOOLEAN, cp \in BOOLEAN : \E bucketOrder \in Orders(DOMAIN retMap) :
          analysis' = AnalyzeDiscovery(retMap,
                          [AgeThresholdDays |-> DefaultAgeThresholdDays,
                           InactivityThresholdDays |-> DefaultInactiveDays,
                           CheckEncryption |-> ce, CheckPublicAccess |-> cp,
                           RiskScoreThreshold |-> DefaultRiskThreshold],
                          bucketOrder)
    /\ cmdPc' = "report"
    /\ UNCHANGED <<batchVars, bucketVars, anaVars, moreVars, cmdErr, gates>>

\* runDiscover: the report is written, the baseline compared and rewritten, and
\* the exit conditions are checked
DiscoverExit ==
    /\ cmdPc = "report"
    /\ mode = "discover"
    /\ \E in \in ExitInputs(DiscoverFlags) :
          /\ gates' = in[2]
          /\ cmdErr' = IF in[1] # "" THEN in[1]
                       ELSE exitConditionsDiscover(in[2], analysis.Summary)
    /\ cmdPc' = "exit"
    /\ UNCHANGED <<batchVars, bucketVars, anaVars, moreVars, analysis>>

ExitNext == ScanAnalyze \/ ScanExit \/ DiscoverAnalyze \/ DiscoverExit

ExitSpec == ExitInit /\ [][ExitNext]_vars

CommandNext ==
    \/ Cancel
    \/ ScanRepository
    \/ NewClient
    \/ ScanConfigure
    \/ ResolveRegions
    \/ ListBucketsFails
    \/ ListBuckets
    \/ ListedBucketRegion
    \/ StartWorkers
    \/ \E b \in Buckets : Acquire(b)
    \/ \E b \in Buckets : GetBucketRegion(b)
    \/ \E b \in Buckets : GetBucketVersioning(b)
    \/ \E b \in Buckets : GetBucketLifecycleConfiguration(b)
    \/ \E b \in Buckets : GetBucketTagging(b)
    \/ \E b \in Buckets : ListObjectsV2(b)
    \/ \E b \in Buckets, p \in 1..Len(refs) : NAcquire(b, p)
    \/ \E b \in Buckets, p \in 1..Len(refs) : NInspect(b, p)
    \/ \E b \in Buckets, p \in 1..Len(refs) : NLock(b, p)
    \/ \E b \in Buckets, p \in 1..Len(refs) : NAppend(b, p)
    \/ \E b \in Buckets, p \in 1..Len(refs) : NRelease(b, p)
    \/ \E b \in Buckets, p \in 1..Len(refs) : NDone(b, p)
    \/ \E b \in Buckets : Join(b)
    \/ \E b \in Buckets : Lock(b)
    \/ \E b \in Buckets : Store(b)
    \/ \E b \in Buckets : Release(b)
    \/ \E b \in Buckets : Done(b)
    \/ Return
    \/ ScanInspectFailed
    \/ ScanAnalyze
    \/ ScanExit

CommandSpec == CommandInit /\ [][CommandNext]_vars

----------------------------------------------------------------------------
(* RerunSpec: Analyze called twice with the same references, metadata map   *)
(* and configuration.                                                       *)

RerunTagMaps == {NilTags, [k \in {"env"} |-> "older"],
                 [k \in {"env", "Old"} |-> IF k = "env" THEN "Deprecated" ELSE "older"]}
RerunPrefixes ==
    {<<>>,
     <<[Prefix |-> "p1", Exists |-> FALSE, ObjectCount |-> 0, DaysSinceModified |-> 0],
       [Prefix |-> "p2", Exists |-> TRUE, ObjectCount |-> 101, DaysSinceModified |-> 91]>>}
RerunInfo(b) ==
    {[ZeroInfo(b) EXCEPT !.Exists = e, !.VersioningEnabled = v, !.Tags = t, !.IsEmpty = m,
                         !.Prefixes = ps] :
        e \in BOOLEAN, v \in BOOLEAN, t \in RerunTagMaps, m \in BOOLEAN, ps \in RerunPrefixes}
RerunMaps ==
    UNION {{f \in [bs -> UNION {RerunInfo(b) : b \in bs}] : \A b \in bs : f[b] \in RerunInfo(b)} :
              bs \in SUBSET Buckets}

RerunInit ==
    /\ dInfo \in RerunMaps
    /\ aRefs \in {<<>>, <<Reference("b1", "p1")>>}
    /\ aConfig = [StaleThresholdDays |-> StaleDays, CheckUnused |-> TRUE,
                  UnusedScoreThreshold |-> DefaultUnusedThreshold]
    /\ dOut1 = NoResult
    /\ dOut2 = NoResult
    /\ aBucket = "" /\ aInfo = NoInfo /\ aResult = <<>>

\* the first call of Analyze
FirstAnalyze ==
    /\ dOut1 = NoResult
    /\ \E bucketOrder \in Orders(DOMAIN dInfo) : \E orders \in TagOrders(dInfo) :
          dOut1' = Analyze(aRefs, dInfo, aConfig, bucketOrder, orders)
    /\ UNCHANGED <<dInfo, dOut2, anaVars, batchVars, bucketVars, cmdVars, retryVars, extraVars>>

\* the second call of Analyze, on the same arguments
SecondAnalyze ==
    /\ dOut1 # NoResult
    /\ dOut2 = NoResult
    /\ \E bucketOrder \in Orders(DOMAIN dInfo) : \E orders \in TagOrders(dInfo) :
          dOut2' = Analyze(aRefs, dInfo, aConfig, bucketOrder, orders)
    /\ UNCHANGED <<dInfo, dOut1, anaVars, batchVars, bucketVars, cmdVars, retryVars, extraVars>>

RerunNext ==
    \/ FirstAnalyze
    \/ SecondAnalyze

RerunSpecInit == RerunInit /\ BatchIdle /\ BucketIdle /\ CmdIdle /\ RetryIdle /\ ExtraIdle

RerunSpec == RerunSpecInit /\ [][RerunNext]_vars

----------------------------------------------------------------------------
(* Claims about the collector (BatchSpec, RegionSpec, BucketSpec,           *)
(* CommandSpec)                                                             *)

Returned == phase = "returned" /\ retErr = ""
Enumerated == IF mode = "inspect" THEN {refs[i].Bucket : i \in DOMAIN refs} ELSE awsBuckets

\* C1: in both modes, a container whose location lookup failed is returned with
\* exists=false and a non-empty error, and all the other containers of the batch
\* are returned as well.
C1_LookupFailureRecorded ==
    Returned =>
        /\ DOMAIN retMap = Enumerated
        /\ \A b \in lookupFailed :
              /\ b \in DOMAIN retMap
              /\ retMap[b].Exists = FALSE
              /\ retMap[b].Error # NoError

\* C2: when a secondary call of an existing container fails, the record carries
\* an error annotation, the field of the call keeps its zero value and the other
\* secondary calls are issued all the same.
C2_SecondaryFailureAnnotated ==
    (bpc = "done" /\ binfo.Exists) =>
        /\ SecondaryCalls \subseteq bissued
        /\ "versioning" \in bfailed => binfo.VersioningEnabled = FALSE
        /\ "lifecycle" \in bfailed => binfo.LifecycleRules = 0
        /\ "tagging" \in bfailed => binfo.Tags = NilTags
        /\ "listing" \in bfailed => binfo.IsEmpty = FALSE /\ binfo.ObjectCount = 0
        /\ bfailed # {} => binfo.Error # NoError

\* C3: the batch returns an error, and no map, exactly when region resolution
\* failed (a failed DescribeRegions in all-regions mode included) or the
\* account-wide ListBuckets failed; failures of single containers never do.
C3_ErrorIffSystemicFailure ==
    phase = "returned" =>
        /\ (retErr # "") <=> (failedCalls # {})
        /\ (retErr # "") <=> (retMap = NoMap)

\* C3 witness: all-regions mode, DescribeRegions fails, the batch returns the error
C3_Witness ==
    /\ phase = "returned"
    /\ allRegions /\ regions = <<>>
    /\ failedCalls = {"DescribeRegions"}
    /\ retErr # "" /\ retMap = NoMap

\* C4: a batch that returns without error returns a map whose keys are exactly
\* the distinct referenced buckets (InspectBuckets) or the listed buckets
\* (DiscoverAllBuckets), each with a record of that bucket.
C4_KeySetIsEnumerated ==
    Returned =>
        /\ retMap # NoMap
        /\ DOMAIN retMap = Enumerated
        /\ \A b \in DOMAIN retMap : retMap[b] # NoInfo /\ retMap[b].Name = b

\* C4 witness: two containers returned, the lookup of one of them having failed
C4_Witness ==
    /\ Returned
    /\ Cardinality(DOMAIN retMap) = 2
    /\ \E b \in DOMAIN retMap : b \in lookupFailed
    /\ \E b \in DOMAIN retMap : b \notin lookupFailed

InFlightInspections == Cardinality({b \in DOMAIN pc : Holding(pc[b])})
EffectiveWidth == IF supplied > 0 THEN supplied ELSE 10

\* C5: at every moment the number of container inspections in flight is at most
\* the effective width: the supplied concurrency if positive, 10 otherwise.
C5_InspectionsBounded ==
    /\ concurrency = EffectiveWidth
    /\ InFlightInspections <= EffectiveWidth

\* C5 witness: width 1, one inspection in flight and another worker kept waiting
C5_Witness ==
    /\ supplied = 1
    /\ InFlightInspections = 1
    /\ \E b \in DOMAIN pc : pc[b] = "wait"

\* workers at one of their remote calls, and prefix workers at theirs
InFlightCalls ==
    Cardinality({b \in DOMAIN pc : pc[b] \in CallPositions})
    + Cardinality({x \in Buckets \X (1..Len(refs)) :
                      /\ x[1] \in DOMAIN npc
                      /\ x[2] \in DOMAIN npc[x[1]]
                      /\ npc[x[1]][x[2]] = "run"})

\* C6: at no moment of InspectBuckets are more than `concurrency` remote calls in
\* flight, the container-level calls and the nested per-prefix calls of all
\* containers counted together.
C6_CallsBounded == mode = "inspect" => InFlightCalls <= concurrency

\* C7: when the timeout fires while the batch is being collected, the command
\* returns the cancellation as an error and derives no classification and no
\* exit-condition decision from the map.
C7_CancelledBatchFails ==
    (cmdPc = "exit" /\ cancelAt \in {"config", "listing", "locating", "collecting"}) =>
        /\ cmdErr = "S3 inspection failed"
        /\ analysis = <<>>
        /\ gates = {}

----------------------------------------------------------------------------
(* Claims about the analyzer (AnalyzeSpec)                                  *)

Analyzed == aResult # <<>>
aReferenced == aBucket \in referencedSet(aRefs)
aOrder == CHOOSE o \in Orders(DOMAIN aInfo.Tags) : TRUE
aScore == calculateUnusedScore(aBucket, aInfo, referencedSet(aRefs), aConfig, aOrder).Total
aThreshold == IF aConfig.UnusedScoreThreshold <= 0 THEN 150 ELSE aConfig.UnusedScoreThreshold

C8_Expected ==
    IF ~aInfo.Exists THEN StatusMissingBucket
    ELSE IF aConfig.CheckUnused /\ aScore >= aThreshold THEN StatusUnusedBucket
    ELSE IF aInfo.VersioningEnabled /\ aInfo.LifecycleRules = 0 THEN StatusVersionSprawl
    ELSE IF aInfo.LifecycleRules = 0
            /\ \E i \in DOMAIN aInfo.Prefixes : aInfo.Prefixes[i].ObjectCount > 100
         THEN StatusLifecycleMisconfig
    ELSE StatusOK

\* C8: Analyze gives every container the first matching classification in the
\* order missing, unused (detection enabled, score >= threshold, 150 when the
\* configured threshold is non-positive), version-sprawl, lifecycle-misconfigured
\* (no rules and a prefix with more than 100 objects), OK; with detection
\* disabled no container is classified unused.
C8_FirstMatchClassification ==
    Analyzed =>
        /\ aResult.Status = C8_Expected
        /\ (~aConfig.CheckUnused => aResult.Status # StatusUnusedBucket)

\* C8 witness: an unused container that is also a version-sprawl candidate, under
\* the default threshold: the earlier rule wins
C8_Witness ==
    /\ Analyzed
    /\ aInfo.Exists /\ aConfig.CheckUnused /\ aConfig.UnusedScoreThreshold <= 0
    /\ aInfo.VersioningEnabled /\ aInfo.LifecycleRules = 0
    /\ aScore = 150
    /\ aResult.Status = StatusUnusedBucket

\* C9: a container whose metadata has exists=false is classified
\* resource-missing whatever its other fields, the references and the
\* configuration are.
C9_MissingAlways ==
    (Analyzed /\ ~aInfo.Exists) => aResult.Status = StatusMissingBucket

\* C9 witness: a non-existing container that would score as unused
C9_Witness ==
    /\ Analyzed /\ ~aInfo.Exists
    /\ aConfig.CheckUnused /\ aScore >= aThreshold
    /\ aInfo.VersioningEnabled /\ aInfo.LifecycleRules = 0
    /\ aResult.Status = StatusMissingBucket

C10_Terms == {"deprecated", "old", "unused", "delete", "obsolete", "legacy", "retired"}
C10_Score ==
    (IF aReferenced THEN 0 ELSE 100)
    + (IF aInfo.IsEmpty THEN 50 ELSE 0)
    + (IF \E k \in DOMAIN aInfo.Tags :
             ToLower(k) \in C10_Terms \/ ToLower(aInfo.Tags[k]) \in C10_Terms
       THEN 20 ELSE 0)

\* C10: the unused-score is 100 if the container is not referenced, plus 50 if
\* it is empty, plus 20 (once) if a tag key or value equals, ignoring case, one
\* of deprecated, old, unused, delete, obsolete, legacy, retired.
C10_UnusedScore ==
    (Analyzed /\ aInfo.Exists /\ aConfig.CheckUnused) => aResult.UnusedScore.Total = C10_Score

\* the classification the claims give a prefix record
PrefixExpected(p) ==
    IF ~p.Exists THEN StatusMissingPrefix
    ELSE IF p.DaysSinceModified > aConfig.StaleThresholdDays THEN StatusStalePrefix
    ELSE StatusOK

\* C18: a prefix is classified missing when its record has exists=false,
\* otherwise stale when its days-since-modified is strictly greater than the
\* staleness threshold, otherwise OK; a value equal to the threshold is OK.
C18_PrefixClassification ==
    Analyzed =>
        \A i \in DOMAIN aResult.Prefixes :
            /\ aResult.Prefixes[i].Prefix = aInfo.Prefixes[i].Prefix
            /\ aResult.Prefixes[i].Status = PrefixExpected(aInfo.Prefixes[i])

\* C18 witness: a prefix modified exactly threshold days ago is OK next to one
\* modified a day earlier, which is stale
C18_Witness ==
    /\ Analyzed /\ Len(aResult.Prefixes) = 2
    /\ aInfo.Prefixes[1].Exists /\ aInfo.Prefixes[1].DaysSinceModified = aConfig.StaleThresholdDays
    /\ aResult.Prefixes[1].Status = StatusOK
    /\ aInfo.Prefixes[2].DaysSinceModified = aConfig.StaleThresholdDays + 1
    /\ aResult.Prefixes[2].Status = StatusStalePrefix

\* C19: for an existing container the result holds the classification of every
\* prefix record, whichever classification the container itself gets (OK,
\* unused, version-sprawl, lifecycle-misconfigured).
C19_PrefixesIndependent ==
    (Analyzed /\ aInfo.Exists) =>
        /\ Len(aResult.Prefixes) = Len(aInfo.Prefixes)
        /\ \A i \in DOMAIN aInfo.Prefixes :
              /\ aResult.Prefixes[i].Prefix = aInfo.Prefixes[i].Prefix
              /\ aResult.Prefixes[i].Status = PrefixExpected(aInfo.Prefixes[i])

\* C20: a container with versioning enabled and no lifecycle rule is never
\* classified OK, whatever exists, its other fields, the references and the
\* configuration are.
C20_SprawlNeverOK ==
    (Analyzed /\ aInfo.VersioningEnabled /\ aInfo.LifecycleRules = 0)
        => aResult.Status # StatusOK

\* C20 witness: an existing, referenced, empty container without prefixes, with
\* unused detection on and a score below the threshold: version sprawl
C20_Witness ==
    /\ Analyzed /\ aInfo.Exists /\ aInfo.VersioningEnabled /\ aInfo.LifecycleRules = 0
    /\ aInfo.IsEmpty /\ aConfig.CheckUnused /\ aScore < aThreshold
    /\ Len(aInfo.Prefixes) = 0
    /\ aResult.Status = StatusVersionSprawl

----------------------------------------------------------------------------
(* Claims about Analyze run twice (RerunSpec)                               *)

\* C11: two runs of Analyze on the same metadata map, references and
\* configuration give the same output: the same classifications, the same order
\* of names in every summary list and the same unused-score reasons, whatever
\* the order in which the maps are iterated.
C11_AnalyzeDeterministic ==
    (dOut1 # NoResult /\ dOut2 # NoResult) => dOut1 = dOut2

----------------------------------------------------------------------------
(* RetrySpec: one call of Client.WithRetry.  The operation is any func()    *)
(* error; the caller's context may be cancelled at any moment, also before  *)
(* the call.  Durations are in seconds.                                     *)

maxRetries == 3
baseDelay == 1

retryableErrors ==
    {"RequestLimitExceeded", "ServiceUnavailable", "SlowDown", "RequestTimeout",
     "TooManyRequests", "InternalError", "503", "429"}

\* every non-nil error counts as retryable
isRetryableError_always(err) == err # ""

\* isRetryableError
isRetryableError(err) ==
    err # "" /\ \E retryable \in retryableErrors : Contains(err, retryable)

RECURSIVE Pow2(_)
\* math.Pow(2, float64(attempt)) for a small non-negative attempt
Pow2(n) == IF n = 0 THEN 1 ELSE 2 * Pow2(n - 1)

\* the same delay before every retry
delay_flat(attempt) == baseDelay

\* delay := time.Duration(math.Pow(2, float64(attempt))) * baseDelay
delay(attempt) == Pow2(attempt) * baseDelay

\* fmt.Errorf("max retries exceeded: %w", lastErr)
maxRetriesExceeded(lastErr) == "max retries exceeded: " \o lastErr

\* what the wrapped operation may return
OperationErrors ==
    {"", "SlowDown", "status code: 503", "status code: 429", "InternalError", "AccessDenied"}

RetryInit ==
    /\ rPc = "call" /\ rAttempt = 0 /\ rErrs = <<>> /\ rWaits = <<>> /\ rTimer = FALSE
    /\ rRet = "" /\ rDone = FALSE /\ rCancelCalls = -1

\* the caller cancels the context
RetryCancel ==
    /\ rPc \in {"call", "select"}
    /\ ~rDone
    /\ rDone' = TRUE
    /\ rCancelCalls' = Len(rErrs)
    /\ UNCHANGED <<rPc, rAttempt, rErrs, rWaits, rTimer, rRet, batchVars, bucketVars,
                   cmdVars, anaVars, rerunVars, extraVars>>

\* one pass of the loop body: err := operation(), up to a return or the select
Attempt ==
    /\ rPc = "call"
    /\ rAttempt < maxRetries
    /\ \E err \in OperationErrors :
         /\ rErrs' = Append(rErrs, err)
         /\ IF err = "" THEN
                rPc' = "done" /\ rRet' = "" /\ UNCHANGED <<rAttempt, rWaits>>
            ELSE IF ~isRetryableError(err) THEN
                rPc' = "done" /\ rRet' = err /\ UNCHANGED <<rAttempt, rWaits>>
            ELSE IF rAttempt < maxRetries - 1 THEN
                /\ rPc' = "select"
                /\ rWaits' = Append(rWaits, delay(rAttempt))
                /\ UNCHANGED <<rAttempt, rRet>>
            ELSE
                \* attempt++ ends the loop: return after the loop
                /\ rPc' = "done"
                /\ rAttempt' = rAttempt + 1
                /\ rRet' = maxRetriesExceeded(err)
                /\ UNCHANGED rWaits
    /\ rTimer' = FALSE
    /\ UNCHANGED <<rDone, rCancelCalls, batchVars, bucketVars, cmdVars, anaVars, rerunVars, extraVars>>

\* the delay of the pending wait elapses
TimerFires ==
    /\ rPc = "select"
    /\ ~rTimer
    /\ rTimer' = TRUE
    /\ UNCHANGED <<rPc, rAttempt, rErrs, rWaits, rRet, rDone, rCancelCalls, batchVars,
                   bucketVars, cmdVars, anaVars, rerunVars, extraVars>>

\* select: case <-ctx.Done(): return ctx.Err()
SelectDone ==
    /\ rPc = "select"
    /\ rDone
    /\ rPc' = "done"
    /\ rRet' = ErrCanceled
    /\ UNCHANGED <<rAttempt, rErrs, rWaits, rTimer, rDone, rCancelCalls, batchVars,
                   bucketVars, cmdVars, anaVars, rerunVars, extraVars>>

\* select: case <-time.After(delay): next iteration
SelectTimer ==
    /\ rPc = "select"
    /\ rTimer
    /\ rPc' = "call"
    /\ rAttempt' = rAttempt + 1
    /\ rTimer' = FALSE
    /\ UNCHANGED <<rErrs, rWaits, rRet, rDone, rCancelCalls, batchVars, bucketVars,
                   cmdVars, anaVars, rerunVars, extraVars>>

RetryNext == RetryCancel \/ Attempt \/ TimerFires \/ SelectDone \/ SelectTimer

RetrySpecInit ==
    RetryInit /\ RerunIdle /\ BatchIdle /\ BucketIdle /\ CmdIdle /\ AnaIdle /\ ExtraIdle

RetrySpec == RetrySpecInit /\ [][RetryNext]_vars

----------------------------------------------------------------------------
(* Claims about region resolution (RegionSpec)                              *)

ProviderRegions == <<"us-east-1", "eu-west-1">>
ClientRegion == <<"us-east-1">>
Resolving == phase = "config" /\ phase' # "config"

\* C17: whatever SetRegions / SetAllRegions calls came before, determineRegions
\* returns the stored explicit list when it is non-empty (also with all-regions
\* enabled afterwards), else the provider's listing when all-regions is enabled
\* (or that listing's error), else exactly the client's own region; and every
\* SetRegions call leaves all-regions switched off.
C17_RegionPrecedence ==
    [][/\ Resolving =>
            IF Len(regions) > 0 THEN resolved' = regions /\ retErr' = ""
            ELSE IF allRegions
                 THEN \/ resolved' = ProviderRegions /\ retErr' = ""
                      \/ resolved' = <<>> /\ retErr' # "" /\ "DescribeRegions" \in failedCalls'
            ELSE resolved' = ClientRegion /\ retErr' = ""
       /\ (\E r \in RegionInputs : SetRegions(r)) => ~allRegions'
      ]_vars

\* C17 witness: an explicit list is stored, all-regions is enabled afterwards,
\* and the resolution has returned the explicit list
C17_Witness ==
    /\ phase # "config"
    /\ regions = <<"eu-west-1">> /\ allRegions
    /\ resolved = regions

----------------------------------------------------------------------------
(* Claims about the discovery analyzer (DiscoverySpec)                      *)

RiskPoints(cond, points) == IF cond THEN points ELSE 0
RiskTags == {"deprecated", "old", "unused", "delete", "obsolete", "legacy", "retired"}
AgeFires == aConfig.AgeThresholdDays > 0 /\ aInfo.AgeInDays > aConfig.AgeThresholdDays
InactivityFires ==
    aConfig.InactivityThresholdDays > 0 /\ aInfo.DaysSinceActivity > aConfig.InactivityThresholdDays
TagFires ==
    \E k \in DOMAIN aInfo.Tags : ToLower(k) \in RiskTags \/ ToLower(aInfo.Tags[k]) \in RiskTags
SprawlFires == aInfo.VersioningEnabled /\ aInfo.LifecycleRules = 0
NoEncryptionFires ==
    aConfig.CheckEncryption /\ aInfo.Encryption = <<[Enabled |-> FALSE]>>
PublicFires ==
    aConfig.CheckPublicAccess /\ aInfo.PublicAccess = <<[IsPublic |-> TRUE]>>
RiskScoreExpected ==
    RiskPoints(AgeFires, 20) + RiskPoints(InactivityFires, 50) + RiskPoints(aInfo.IsEmpty, 30)
    + RiskPoints(TagFires, 20) + RiskPoints(SprawlFires, 30)
    + RiskPoints(NoEncryptionFires, 40) + RiskPoints(PublicFires, 60)
RiskThreshold ==
    IF aConfig.RiskScoreThreshold <= 0 THEN 100 ELSE aConfig.RiskScoreThreshold
Discovered == aResult # <<>>

\* C12: in discovery mode a record whose risk score reaches the threshold (100
\* when the configured one is non-positive) gets the first match of unused
\* (empty, and inactive beyond the threshold or no activity recorded),
\* version-sprawl, inactive, risky; a record below the threshold is OK.
C12_DiscoveryStatus ==
    Discovered =>
        aResult.Status =
            IF aResult.RiskScore < RiskThreshold THEN StatusOK
            ELSE IF aInfo.IsEmpty
                    /\ (aInfo.DaysSinceActivity > aConfig.InactivityThresholdDays
                           \/ aInfo.DaysSinceActivity = 0)
                 THEN StatusUnusedBucket
            ELSE IF aInfo.VersioningEnabled /\ aInfo.LifecycleRules = 0
                 THEN StatusVersionSprawl
            ELSE IF aInfo.DaysSinceActivity > aConfig.InactivityThresholdDays
                 THEN StatusInactive
            ELSE StatusRisky

\* C12 witness: the default threshold is reached by a record that is empty with
\* no activity recorded and also a version-sprawl candidate: unused wins
C12_Witness ==
    /\ Discovered
    /\ aConfig.RiskScoreThreshold <= 0
    /\ aResult.RiskScore >= 100
    /\ aInfo.IsEmpty /\ aInfo.DaysSinceActivity = 0
    /\ aInfo.VersioningEnabled /\ aInfo.LifecycleRules = 0
    /\ aResult.Status = StatusUnusedBucket

\* C13: the discovery risk score is the sum of the points of the factors that
\* fire, each evaluated on its own (age 20, inactivity 50, empty 30, deprecated
\* tag 20, version sprawl 30, no encryption 40 and public access 60 when their
\* checks are enabled); with no factor fired the score is 0 and the status OK.
C13_RiskScoreAdditive ==
    Discovered =>
        /\ aResult.RiskScore = RiskScoreExpected
        /\ RiskScoreExpected = 0 => aResult.Status = StatusOK

\* C13 witness: all seven factors fire together
C13_Witness ==
    /\ Discovered
    /\ AgeFires /\ InactivityFires /\ aInfo.IsEmpty /\ TagFires /\ SprawlFires
    /\ NoEncryptionFires /\ PublicFires
    /\ aResult.RiskScore = 250

----------------------------------------------------------------------------
(* Claims about WithRetry (RetrySpec)                                       *)

RetryReturned == rPc = "done"
Invocations == Len(rErrs)
Transient(e) == e \in {"SlowDown", "status code: 503", "status code: 429", "InternalError"}
Permanent(e) == e = "AccessDenied"
WrapsLast(e, last) == e = "max retries exceeded: " \o last

\* C14: WithRetry invokes the operation at most 3 times and never after a
\* success; a transient failure of attempt k < 2 starts a wait of 2^k seconds
\* (1 s, then 2 s) and the next attempt comes only after it; no wait follows
\* the final attempt; after 3 transient failures the returned error wraps the
\* last operation error.
C14_RetryEnvelope ==
    /\ Invocations <= 3
    /\ \A i \in 1..(Invocations - 1) : rErrs[i] # ""
    /\ RetryReturned /\ Invocations > 0 /\ rErrs[Invocations] = "" => rRet = ""
    /\ \A i \in 1..Invocations :
         (Transient(rErrs[i]) /\ i < 3) => (Len(rWaits) >= i /\ rWaits[i] = Pow2(i - 1))
    /\ Len(rWaits) <= 2
    /\ Len(rWaits) <= Invocations /\ Invocations <= Len(rWaits) + 1
    /\ (Invocations = 3 /\ Transient(rErrs[3])) =>
           (RetryReturned /\ WrapsLast(rRet, rErrs[3]))

\* C14 witness: three transient failures, the last differing from the first,
\* with the waits of 1 s and 2 s in between
C14_Witness ==
    /\ RetryReturned /\ Invocations = 3
    /\ rErrs[1] = "SlowDown" /\ rErrs[3] = "status code: 503"
    /\ rWaits = <<1, 2>>
    /\ rRet = "max retries exceeded: status code: 503"

\* C15: an operation error matching no retryable signature is returned as it
\* is at once, on whichever attempt it occurs: no wait is entered after it and
\* no further attempt is made.
C15_PermanentReturned ==
    \A i \in 1..Invocations :
        Permanent(rErrs[i]) =>
            /\ RetryReturned /\ rRet = rErrs[i]
            /\ i = Invocations
            /\ Len(rWaits) = i - 1

\* C15 witness: the permanent error comes on the third attempt
C15_Witness ==
    /\ RetryReturned /\ Invocations = 3 /\ rErrs[3] = "AccessDenied" /\ rRet = "AccessDenied"

\* C16: once the context is cancelled WithRetry makes no attempt beyond the
\* one of its entry, and when an attempt made under the cancelled context
\* fails the returned error is the cancellation error, not the operation's.
C16_CancellationWins ==
    rCancelCalls # -1 =>
        /\ Invocations > rCancelCalls => (rCancelCalls = 0 /\ Invocations = 1)
        /\ (RetryReturned /\ Invocations > rCancelCalls /\ rErrs[Invocations] # "")
               => rRet = ErrCanceled

----------------------------------------------------------------------------
(* Claims about the progress callback (ProgressSpec)                        *)

Listed == phase = "workers" \/ (phase = "returned" /\ retErr = "")
\* the invocations made by the workers (those before the listing name no bucket)
WorkerCalls == SelectSeq(progressLog, LAMBDA e : e.bucket # "")
Completed == {b \in DOMAIN pc : Past(pc[b])}
\* a callback was installed at every completion so far
AllReported == Len(WorkerCalls) = Cardinality(Completed)

\* the invocations so far: one at most per completed container, total the number
\* of enumerated containers, completed-count increasing, and 1, 2, ... when a
\* callback was installed at every completion
ProgressInvocations ==
    Listed =>
        /\ Cardinality({b \in DOMAIN pc : pc[b] = "crit"}) <= 1
        /\ current = Cardinality(Completed)
        /\ \A i \in DOMAIN WorkerCalls :
              /\ WorkerCalls[i].total = Cardinality(Enumerated)
              /\ WorkerCalls[i].bucket \in Completed
              /\ WorkerCalls[i].current \in 1..current
              /\ \A j \in DOMAIN WorkerCalls :
                    i < j => /\ WorkerCalls[i].current < WorkerCalls[j].current
                             /\ WorkerCalls[i].bucket # WorkerCalls[j].bucket
        /\ AllReported =>
              /\ \A i \in DOMAIN WorkerCalls : WorkerCalls[i].current = i
              /\ {WorkerCalls[i].bucket : i \in DOMAIN WorkerCalls} = Completed
        /\ phase = "returned" =>
              /\ Completed = Enumerated
              /\ DOMAIN retMap = Enumerated
              /\ \A b \in Enumerated : retMap[b] = winfo[b]

\* a worker's completion invokes the installed callback once, with the new
\* count, the total and the container; without a callback it invokes nothing;
\* no other step of the worker phase invokes it
ProgressStep ==
    phase = "workers" =>
        IF \E b \in DOMAIN pc : pc[b] = "crit" /\ pc'[b] = "unlocked"
        THEN LET b == CHOOSE c \in DOMAIN pc : pc[c] = "crit" /\ pc'[c] = "unlocked"
             IN  progressLog' =
                     IF progressCallback
                     THEN Append(progressLog, [current |-> current + 1,
                                               total |-> Cardinality(Enumerated),
                                               bucket |-> b])
                     ELSE progressLog
        ELSE progressLog' = progressLog

\* C21: after the listing phase the callback is invoked once for each
\* enumerated container that completes while it is installed, with total the
\* number of enumerated containers and the completed-count increasing in the
\* order of invocation (1, 2, ..., total when it was installed throughout),
\* never two workers at once; without a callback nothing is invoked and the
\* returned map holds every worker's record all the same.
C21_ProgressOncePerContainer == []ProgressInvocations /\ [][ProgressStep]_vars

\* C21 witness: two containers, callback set, the batch returned after the
\* invocations (1, 2) and (2, 2), b2 completing first
C21_Witness ==
    /\ phase = "returned" /\ retErr = "" /\ progressCallback
    /\ AllReported
    /\ Enumerated = {"b1", "b2"}
    /\ Len(WorkerCalls) = 2
    /\ WorkerCalls[1] = [current |-> 1, total |-> 2, bucket |-> "b2"]
    /\ WorkerCalls[2] = [current |-> 2, total |-> 2, bucket |-> "b1"]

----------------------------------------------------------------------------
(* Claims about the commands' exit (ExitSpec)                               *)

Exited == cmdPc = "exit"
Classified(st) == {b \in DOMAIN analysis.Buckets : analysis.Buckets[b].Status = st}
StaleFound ==
    \E b \in DOMAIN analysis.Buckets :
        \E i \in DOMAIN analysis.Buckets[b].Prefixes :
            analysis.Buckets[b].Prefixes[i].Status = StatusStalePrefix
\* an enabled gate of the command has a positive count
GateHit ==
    IF mode = "inspect"
    THEN \/ "failOnMissing" \in gates /\ Classified(StatusMissingBucket) # {}
         \/ "failOnStale" \in gates /\ StaleFound
         \/ "failOnVersionSprawl" \in gates /\ Classified(StatusVersionSprawl) # {}
         \/ "failOnUnused" \in gates /\ Classified(StatusUnusedBucket) # {}
    ELSE \/ "failOnUnused" \in gates /\ Classified(StatusUnusedBucket) # {}
         \/ "failOnRisky" \in gates /\ Classified(StatusRisky) # {}
CollectedAndReported ==
    /\ Exited /\ analysis # <<>>
    /\ cmdErr \notin {"output file creation", "unsupported output format", "report generation"}

\* C22 as stated: once collection and report generation have succeeded, the
\* command exits with failure exactly when an enabled gate has a positive count.
C22_GatesDecideExit ==
    CollectedAndReported => (cmdErr # "" <=> GateHit)

\* C22 with the baseline steps among the premises: once collection, report
\* generation and the baseline comparison and rewrite have succeeded, the command
\* exits with failure exactly when an enabled gate has a positive count (scan:
\* missing, stale, version sprawl, unused; discover: unused, risky).
C22_GatesDecideExitAfterBaseline ==
    (CollectedAndReported /\ cmdErr \notin {"baseline load", "baseline write"})
        => (cmdErr # "" <=> GateHit)

\* C22 witness: a scan with only fail-on-stale set finds a missing container and
\* a stale prefix and fails for the stale prefix
C22_Witness ==
    /\ Exited /\ mode = "inspect" /\ analysis # <<>>
    /\ gates = {"failOnStale"}
    /\ Classified(StatusMissingBucket) # {} /\ StaleFound
    /\ cmdErr = "found stale prefixes"

----------------------------------------------------------------------------
(***************************************************************************)
(* baseline.Diff (internal/baseline): the comparison of the current        *)
(* findings with those of a previous report.  DiffSpec draws the two       *)
(* finding lists and runs Diff once.                                       *)
(***************************************************************************)

Finding(t, b, p) == [Type |-> t, Bucket |-> b, Prefix |-> p]

\* Finding.key: fmt.Sprintf("%s|%s|%s", ...) resp. fmt.Sprintf("%s|%s", ...)
key(f) ==
    IF f.Prefix # ""
    THEN f.Type \o "|" \o f.Bucket \o "|" \o f.Prefix
    ELSE f.Type \o "|" \o f.Bucket

\* the key set built by the first two loops of Diff
keyMap(findings) == {key(findings[i]) : i \in DOMAIN findings}

Diff_resolvedAll(cur, base) ==
    LET baseMap == keyMap(base)
    IN  [New       |-> SelectSeq(cur, LAMBDA f : key(f) \notin baseMap),
         Resolved  |-> base,
         Unchanged |-> SelectSeq(cur, LAMBDA f : key(f) \in baseMap)]

Diff(cur, base) ==
    LET baseMap == keyMap(base)
        curMap  == keyMap(cur)
    IN  [New       |-> SelectSeq(cur, LAMBDA f : key(f) \notin baseMap),
         Resolved  |-> SelectSeq(base, LAMBDA f : key(f) \notin curMap),
         Unchanged |-> SelectSeq(cur, LAMBDA f : key(f) \in baseMap)]

MaxFindings == 2

\* findings as FlattenScanFindings produces them: a bucket-level status without
\* prefix, a prefix-level status with one; bucket names as the Terraform
\* pattern bucket = "([^"]+)" captures them, prefixes as ([^?\s"']+) does
FindingInputs ==
    { Finding(StatusMissingBucket, "a", ""),
      Finding(StatusMissingBucket, "a|b", ""),
      Finding(StatusStalePrefix, "a", "c"),
      Finding(StatusMissingPrefix, "a", "c"),
      Finding(StatusStalePrefix, "a|b", "c"),
      Finding(StatusStalePrefix, "a", "b|c") }

DiffInit ==
    /\ fCurrent \in SeqsUpTo(FindingInputs, MaxFindings)
    /\ fBaseline \in SeqsUpTo(FindingInputs, MaxFindings)
    /\ fResult = <<>>

RunDiff ==
    /\ fResult = <<>>
    /\ fResult' = Diff(fCurrent, fBaseline)
    /\ UNCHANGED <<fCurrent, fBaseline, versionVars, batchVars, bucketVars, cmdVars, anaVars,
                   rerunVars, retryVars>>

DiffSpecInit ==
    /\ DiffInit /\ VersionIdle /\ RerunIdle /\ RetryIdle
    /\ BatchIdle /\ BucketIdle /\ CmdIdle /\ AnaIdle
DiffNext == RunDiff
DiffSpec == DiffSpecInit /\ [][DiffNext]_vars

----------------------------------------------------------------------------
(***************************************************************************)
(* Claims about baseline.Diff (DiffSpec)                                   *)
(***************************************************************************)

Compared == fResult # <<>>
\* the identity Diff compares findings by
SameIdentity(f, g) == key(f) = key(g)
IdentityIn(f, findings) == \E j \in DOMAIN findings : SameIdentity(f, findings[j])
\* number of the first i elements of s whose identity is (is not) in t
Among(s, i, t) == Cardinality({j \in 1..i : IdentityIn(s[j], t)})
NotAmong(s, i, t) == Cardinality({j \in 1..i : ~IdentityIn(s[j], t)})

\* C23: Diff puts every current finding, in its original order, into
\* Unchanged when its identity is in the baseline and into New otherwise, so
\* each current finding is in exactly one of the two; Resolved is, in
\* order, the baseline findings whose identity is not among the current
\* ones; and Diff(X, X) has New and Resolved empty and Unchanged = X.
C23_DiffPartition ==
    Compared =>
        /\ Len(fResult.Unchanged) = Among(fCurrent, Len(fCurrent), fBaseline)
        /\ Len(fResult.New) = NotAmong(fCurrent, Len(fCurrent), fBaseline)
        /\ \A i \in DOMAIN fCurrent :
              IF IdentityIn(fCurrent[i], fBaseline)
              THEN fResult.Unchanged[Among(fCurrent, i, fBaseline)] = fCurrent[i]
              ELSE fResult.New[NotAmong(fCurrent, i, fBaseline)] = fCurrent[i]
        /\ Len(fResult.Resolved) = NotAmong(fBaseline, Len(fBaseline), fCurrent)
        /\ \A i \in DOMAIN fBaseline :
              ~IdentityIn(fBaseline[i], fCurrent)
                  => fResult.Resolved[NotAmong(fBaseline, i, fCurrent)] = fBaseline[i]
        /\ fCurrent = fBaseline
              => fResult.New = <<>> /\ fResult.Resolved = <<>> /\ fResult.Unchanged = fCurrent

C23_Witness ==
    /\ Compared
    /\ Len(fCurrent) = 2 /\ Len(fBaseline) = 2
    /\ Len(fResult.New) = 1 /\ Len(fResult.Unchanged) = 1 /\ Len(fResult.Resolved) = 1
    /\ fResult.Unchanged[1] = fCurrent[2]

\* C24: Diff treats a current finding as one of the baseline (Unchanged)
\* exactly when the baseline holds a finding with equal type, equal bucket
\* and equal prefix, the empty prefix included.
C24_IdentityIsTriple ==
    Compared =>
        \A i \in DOMAIN fCurrent :
            (fCurrent[i] \in Range(fResult.Unchanged))
                <=> (\E j \in DOMAIN fBaseline :
                        /\ fBaseline[j].Type = fCurrent[i].Type
                        /\ fBaseline[j].Bucket = fCurrent[i].Bucket
                        /\ fBaseline[j].Prefix = fCurrent[i].Prefix)

----------------------------------------------------------------------------
(***************************************************************************)
(* The version pass of inspectBucketFull: calculateVersionSizes lists the  *)
(* object versions page by page inside one WithRetry call.  The closure's  *)
(* locals (markers, iteration, the two sums) live outside it, so a retry   *)
(* re-enters the loop with what the earlier invocations left.              *)
(* VersionSpec runs one pass, one ListObjectVersions call per step; the    *)
(* backoff select and the cancellation are those of WithRetry above.       *)
(***************************************************************************)

maxIterations == 100

\* the loop never stops on its own
loopContinues_unbounded(iter) == TRUE

\* for iteration < maxIterations
loopContinues(iter) == iter < maxIterations

\* page k of the listing: Versions (each with its *Size, <<>> = nil) and the
\* number of DeleteMarkers
ListedPage(k) ==
    IF k % 3 = 1 THEN [Versions |-> <<<<7>>>>, DeleteMarkers |-> 0]
    ELSE IF k % 3 = 2 THEN [Versions |-> <<>>, DeleteMarkers |-> 2]
    ELSE [Versions |-> <<<<100>>, <<>>>>, DeleteMarkers |-> 1]

\* ListObjectVersions with the given markers: the page, IsTruncated and the
\* next markers
ListObjectVersions(marker, pages) ==
    LET k == IF marker = 0 THEN 1 ELSE marker
    IN  [page |-> k, Versions |-> ListedPage(k).Versions,
         DeleteMarkers |-> ListedPage(k).DeleteMarkers,
         IsTruncated |-> k < pages, NextKeyMarker |-> k + 1]

RECURSIVE sumSizes(_)
\* the loop over listVersionsResult.Versions: sizes that are not nil
sumSizes(versions) ==
    IF versions = <<>> THEN 0
    ELSE (IF Head(versions) = <<>> THEN 0 ELSE Head(versions)[1]) + sumSizes(Tail(versions))

ServerPageCounts == {1, 2, 3, 100, 101, 130}

VersionInit ==
    /\ vServerPages \in ServerPageCounts
    /\ vInfo \in {[VersioningEnabled |-> v, TotalVersionSize |-> 0, VersionCount |-> 0] :
                     v \in BOOLEAN}
    /\ keyMarker = 0 /\ iteration = 0 /\ totalVersionSize = 0 /\ versionCount = 0
    /\ vAccumulated = <<>>
    /\ rPc = "inspect" /\ rAttempt = 0 /\ rErrs = <<>> /\ rWaits = <<>> /\ rTimer = FALSE
    /\ rRet = "" /\ rDone = FALSE /\ rCancelCalls = -1

VersionUnchanged == UNCHANGED <<batchVars, bucketVars, cmdVars, anaVars, rerunVars, diffVars>>

\* inspectBucketFull: if info.VersioningEnabled { i.calculateVersionSizes(...) }
StartVersionPass ==
    /\ rPc = "inspect"
    /\ rPc' = IF vInfo.VersioningEnabled THEN "call" ELSE "returned"
    /\ UNCHANGED <<rAttempt, rErrs, rWaits, rTimer, rRet, rDone, rCancelCalls, versionVars>>
    /\ VersionUnchanged

\* the closure finds iteration at the limit: return nil
LoopExit ==
    /\ rPc = "call"
    /\ rAttempt < maxRetries
    /\ ~loopContinues(iteration)
    /\ rErrs' = Append(rErrs, "")
    /\ rPc' = "done" /\ rRet' = ""
    /\ UNCHANGED <<rAttempt, rWaits, rTimer, rDone, rCancelCalls, versionVars>>
    /\ VersionUnchanged

\* one ListObjectVersions call of the closure, up to the next call, the
\* closure's return and what WithRetry does with the returned error
ListVersionsPage ==
    /\ rPc = "call"
    /\ rAttempt < maxRetries
    /\ loopContinues(iteration)
    /\ \E err \in OperationErrors :
         IF err = "" THEN
            LET res == ListObjectVersions(keyMarker, vServerPages) IN
            /\ totalVersionSize' = totalVersionSize + sumSizes(res.Versions)
            /\ versionCount' = versionCount + Len(res.Versions) + res.DeleteMarkers
            /\ vAccumulated' = Append(vAccumulated, res.page)
            /\ IF res.IsTruncated
               THEN /\ keyMarker' = res.NextKeyMarker
                    /\ iteration' = iteration + 1
                    /\ UNCHANGED <<rPc, rRet, rErrs>>
               ELSE /\ rPc' = "done" /\ rRet' = ""
                    /\ rErrs' = Append(rErrs, "")
                    /\ UNCHANGED <<keyMarker, iteration>>
            /\ UNCHANGED <<rAttempt, rWaits>>
         ELSE
            /\ rErrs' = Append(rErrs, err)
            /\ UNCHANGED <<keyMarker, iteration, totalVersionSize, versionCount, vAccumulated>>
            /\ IF ~isRetryableError(err) THEN
                   rPc' = "done" /\ rRet' = err /\ UNCHANGED <<rAttempt, rWaits>>
               ELSE IF rAttempt < maxRetries - 1 THEN
                   /\ rPc' = "select"
                   /\ rWaits' = Append(rWaits, delay(rAttempt))
                   /\ UNCHANGED <<rAttempt, rRet>>
               ELSE
                   /\ rPc' = "done"
                   /\ rAttempt' = rAttempt + 1
                   /\ rRet' = maxRetriesExceeded(err)
                   /\ UNCHANGED rWaits
    /\ rTimer' = FALSE
    /\ UNCHANGED <<rDone, rCancelCalls, vServerPages, vInfo>>
    /\ VersionUnchanged

\* WithRetry has returned (its error is dropped): the sums go into info
RecordVersionSizes ==
    /\ rPc = "done"
    /\ vInfo' = [vInfo EXCEPT !.TotalVersionSize = totalVersionSize,
                              !.VersionCount = versionCount]
    /\ rPc' = "returned"
    /\ UNCHANGED <<rAttempt, rErrs, rWaits, rTimer, rRet, rDone, rCancelCalls, vServerPages,
                   keyMarker, iteration, totalVersionSize, versionCount, vAccumulated>>
    /\ VersionUnchanged

VersionSpecInit ==
    /\ VersionInit /\ DiffIdle /\ RerunIdle
    /\ BatchIdle /\ BucketIdle /\ CmdIdle /\ AnaIdle
VersionNext ==
    \/ StartVersionPass
    \/ LoopExit
    \/ ListVersionsPage
    \/ RecordVersionSizes
    \/ RetryCancel
    \/ TimerFires
    \/ SelectDone
    \/ SelectTimer
VersionSpec == VersionSpecInit /\ [][VersionNext]_vars

----------------------------------------------------------------------------
(***************************************************************************)
(* Claims about the version pass (VersionSpec)                             *)
(***************************************************************************)

VersionPassReturned == rPc = "returned"
RECURSIVE PagesCount(_)
\* versions and delete markers of the given pages
PagesCount(ps) ==
    IF ps = <<>> THEN 0
    ELSE Len(ListedPage(Head(ps)).Versions) + ListedPage(Head(ps)).DeleteMarkers
         + PagesCount(Tail(ps))
RECURSIVE PagesSize(_)
\* bytes of the versions of the given pages
PagesSize(ps) ==
    IF ps = <<>> THEN 0
    ELSE sumSizes(ListedPage(Head(ps)).Versions) + PagesSize(Tail(ps))
\* ListObjectVersions calls that returned an error
FailedListings == Cardinality({i \in DOMAIN rErrs : rErrs[i] # ""})

\* C26: a container without versioning gets no version listing; a versioned
\* one accumulates at most 100 pages, also across retries; the accumulated
\* pages are the first pages of the listing, each once and in order; and the
\* recorded version count and byte size are the versions plus delete
\* markers, resp. the version sizes, of exactly those pages.
C26_VersionPass ==
    /\ Len(vAccumulated) <= maxIterations
    /\ \A i \in DOMAIN vAccumulated : vAccumulated[i] = i
    /\ ~vInfo.VersioningEnabled => vAccumulated = <<>> /\ rErrs = <<>>
    /\ VersionPassReturned =>
          /\ vInfo.VersionCount = PagesCount(vAccumulated)
          /\ vInfo.TotalVersionSize = PagesSize(vAccumulated)
          /\ ~vInfo.VersioningEnabled => vInfo.VersionCount = 0 /\ vInfo.TotalVersionSize = 0

\* a pass that was retried twice and stopped at the page limit
C26_Witness ==
    /\ VersionPassReturned
    /\ vInfo.VersioningEnabled
    /\ FailedListings = 2
    /\ vServerPages > maxIterations
    /\ Len(vAccumulated) = maxIterations
    /\ vInfo.VersionCount = PagesCount(vAccumulated) /\ vInfo.VersionCount > 0

----------------------------------------------------------------------------
(***************************************************************************)
(* Claims about the workers' critical sections (BatchSpec)                 *)
(***************************************************************************)

\* workers between mu.Lock() and mu.Unlock()
InWritePath == {b \in DOMAIN pc : pc[b] = "crit"}
Stored == {b \in DOMAIN pc : Past(pc[b])}
\* prefix workers of b between the nested mu.Lock() and mu.Unlock()
InNestedWritePath(b) == {p \in DOMAIN npc[b] : npc[b][p] = "crit"}
Appended(b) == {p \in DOMAIN npc[b] : Past(npc[b][p])}

\* at most one worker is in the write path, and it is the one holding the mutex
OneWriter ==
    /\ Cardinality(InWritePath) <= 1
    /\ \A b \in DOMAIN pc : pc[b] = "crit" <=> mu = <<b>>
    /\ \A b \in DOMAIN npc :
          /\ Cardinality(InNestedWritePath(b)) <= 1
          /\ \A p \in DOMAIN npc[b] : npc[b][p] = "crit" <=> nmu[b] = <<p>>

\* every finished worker's record is in the shared structure, and the
\* counter is the number of finished workers
NothingLost ==
    phase \in {"workers", "returned"} =>
        /\ current = Cardinality(Stored)
        /\ \A b \in Stored : b \in DOMAIN bucketInfo /\ bucketInfo[b] = winfo[b]
        /\ \A b \in DOMAIN npc :
              /\ Len(nresults[b]) = Cardinality(Appended(b))
              /\ \A p \in Appended(b) : \E i \in DOMAIN nresults[b] : nresults[b][i] = ninfo[b][p]

\* a step of the worker phase that changes the map, the counter or a prefix
\* result list is taken by the holder of the mutex guarding it
WritesUnderLock ==
    phase = "workers" /\ phase' = "workers" =>
        /\ (bucketInfo' # bucketInfo \/ current' # current)
              => (mu # <<>> /\ pc[mu[1]] = "crit" /\ pc'[mu[1]] = "unlocked")
        /\ \A b \in DOMAIN nresults :
              nresults'[b] # nresults[b]
                  => (nmu[b] # <<>> /\ npc[b][nmu[b][1]] = "crit"
                      /\ npc'[b][nmu[b][1]] = "unlocked")

\* C25: the shared result map, the completed counter and each container's
\* prefix result list are written only by the worker holding the guarding
\* mutex; no two workers are in the same write path at once; and no
\* worker's result is lost or overwritten.
C25_WritesSerialized == [](OneWriter /\ NothingLost) /\ [][WritesUnderLock]_vars

\* a worker holds the mutex while the other one waits for it, after the two
\* prefix workers of the holder have each appended their result
C25_Witness ==
    /\ phase = "workers"
    /\ \E b \in InWritePath :
          /\ Cardinality(Appended(b)) = 2
          /\ Len(winfo[b].Prefixes) = 2
          /\ \E other \in DOMAIN pc : other # b /\ pc[other] = "agg"

----------------------------------------------------------------------------
(***************************************************************************)
(* Claims about the inactive status (DiscoverySpec)                        *)
(***************************************************************************)

\* C27: a discovered bucket is classified inactive only if the inactivity
\* factor fired (positive threshold, more days without activity than it);
\* with a non-positive threshold no bucket is classified inactive.
C27_InactiveNeedsFactor ==
    Discovered =>
        /\ aResult.Status = StatusInactive => InactivityFires
        /\ aConfig.InactivityThresholdDays <= 0 => aResult.Status # StatusInactive

\* the status holds whenever the factor did fire
C27_InactiveWithFactor ==
    (Discovered /\ aConfig.InactivityThresholdDays > 0 /\ aResult.Status = StatusInactive)
        => InactivityFires

----------------------------------------------------------------------------
(***************************************************************************)
(* Claims about the prefix inspections of a container (BatchSpec)          *)
(***************************************************************************)

\* the distinct non-empty prefixes among the references to b
DistinctPrefixes(b) ==
    {refs[i].Prefix : i \in {j \in DOMAIN refs : refs[j].Bucket = b /\ refs[j].Prefix # ""}}
\* inspectPrefixWithClient calls made so far for prefix p of b
Inspections(b, p) == {k \in DOMAIN ninfo[b] : ninfo[b][k].Prefix = p}
\* the worker of b is past its prefix inspection
PrefixesInspected(b) == pc[b] \in {"agg", "crit"} \/ Past(pc[b])
EntriesFor(info, p) == {i \in DOMAIN info.Prefixes : info.Prefixes[i].Prefix = p}

\* what the claim says of container b
OncePerPrefix(b) ==
    /\ \A k \in DOMAIN ninfo[b] : ninfo[b][k].Prefix \in DistinctPrefixes(b)
    /\ \A p \in DistinctPrefixes(b) : Cardinality(Inspections(b, p)) <= 1
    /\ PrefixesInspected(b) =>
          \A p \in DistinctPrefixes(b) : Cardinality(Inspections(b, p)) = 1
    /\ Returned =>
          /\ Len(retMap[b].Prefixes) = Cardinality(DistinctPrefixes(b))
          /\ \A p \in DistinctPrefixes(b) : Cardinality(EntriesFor(retMap[b], p)) = 1

\* C28 as stated: for each container every distinct non-empty prefix among
\* its references is inspected exactly once, an empty prefix triggers no
\* inspection, and the returned record lists exactly one entry per distinct
\* prefix.
C28_OncePerPrefix == \A b \in DOMAIN pc : OncePerPrefix(b)

\* C28 for the containers whose location lookup succeeded: their distinct
\* non-empty prefixes are each inspected exactly once, an empty prefix
\* triggers no inspection, and the returned record lists exactly one entry
\* per distinct prefix; a container whose lookup failed gets no prefix
\* inspection and an empty prefix list.
C28_OncePerPrefixOfLocated ==
    \A b \in DOMAIN pc :
        IF b \in lookupFailed
        THEN /\ DOMAIN ninfo[b] = {}
             /\ Returned => retMap[b].Prefixes = <<>>
        ELSE OncePerPrefix(b)

\* a returned container referenced twice with one prefix and once with the
\* empty prefix
C28_Witness ==
    /\ Returned
    /\ \E b \in DOMAIN pc :
          /\ b \notin lookupFailed
          /\ Cardinality({i \in DOMAIN refs : refs[i].Bucket = b /\ refs[i].Prefix = "p1"}) = 2
          /\ \E i \in DOMAIN refs : refs[i].Bucket = b /\ refs[i].Prefix = ""
          /\ Cardinality(Inspections(b, "p1")) = 1
          /\ Len(retMap[b].Prefixes) = 1

----------------------------------------------------------------------------
(***************************************************************************)
(* TerminationSpec: the batch under the assumption that whatever can run   *)
(* eventually does: a remote call that was issued returns, and a goroutine *)
(* that is runnable (its channel send or its Lock can proceed) is          *)
(* scheduled.  Every step of BatchNext is such a step, and a batch has     *)
(* finitely many of them, so weak fairness of BatchNext is the assumption. *)
(***************************************************************************)

\* reference lists with two containers, two prefixes of one container, a
\* repeated prefix, and none at all
TerminationRefInputs ==
    { <<>>,
      <<Reference("b1", ""), Reference("b2", "")>>,
      <<Reference("b1", "p1"), Reference("b1", "p2"), Reference("b2", "p1")>>,
      <<Reference("b1", "p1"), Reference("b1", "p1"), Reference("b1", "p2")>> }

TerminationWidths == {0, 1}

TerminationSpecInit ==
    /\ BatchInitWith({"inspect", "discover"}, TerminationWidths, TerminationRefInputs)
    /\ OtherInit
TerminationNext == BatchNext
TerminationSpec ==
    TerminationSpecInit /\ [][TerminationNext]_vars /\ WF_vars(TerminationNext)

----------------------------------------------------------------------------
(***************************************************************************)
(* Claims about termination (TerminationSpec)                              *)
(***************************************************************************)

BatchReturned == phase = "returned"
\* slots of the container-level channel and of the nested channels in use
SlotsHeld ==
    semaphore > 0 \/ \E b \in DOMAIN nsemaphore : nsemaphore[b] > 0
\* some worker or prefix worker waits for a slot of its pool
AnyWaiting ==
    \/ \E b \in DOMAIN pc : pc[b] = "wait"
    \/ \E b \in DOMAIN npc : \E k \in DOMAIN npc[b] : npc[b][k] = "wait"
AllWorkersDone ==
    /\ \A b \in DOMAIN pc : pc[b] = "done"
    /\ \A b \in DOMAIN npc : \A k \in DOMAIN npc[b] : npc[b][k] = "done"

\* C29: InspectBuckets and DiscoverAllBuckets return; whenever workers or
\* prefix workers wait for a slot, a moment follows at which all of them
\* have got one; and when the call has returned every worker has finished
\* and no slot of any pool is still held.
C29_BatchTerminates ==
    /\ <>BatchReturned
    /\ AnyWaiting ~> ~AnyWaiting
    /\ [](BatchReturned => (AllWorkersDone /\ ~SlotsHeld))

\* a returned batch of pool width 1 in which two containers, one of them with
\* two prefixes, went through the pools
C29_Witness ==
    /\ BatchReturned /\ retErr = ""
    /\ concurrency = 1
    /\ Cardinality(DOMAIN pc) = 2
    /\ \E b \in DOMAIN npc : Cardinality(DOMAIN npc[b]) = 2 /\ Len(retMap[b].Prefixes) = 2
    /\ AllWorkersDone /\ ~SlotsHeld

----------------------------------------------------------------------------
(***************************************************************************)
(* Claims about the summary counts (ExitSpec)                              *)
(***************************************************************************)

CommandAnalyzed == analysis # <<>>
\* the list names exactly the containers of status st, each once
ListsStatus(list, st) ==
    /\ Range(list) = Classified(st)
    /\ Len(list) = Cardinality(Classified(st))
ScanCategories ==
    /\ analysis.Summary.OKBuckets = Cardinality(Classified(StatusOK))
    /\ ListsStatus(analysis.Summary.MissingBuckets, StatusMissingBucket)
    /\ ListsStatus(analysis.Summary.UnusedBuckets, StatusUnusedBucket)
    /\ ListsStatus(analysis.Summary.VersionSprawl, StatusVersionSprawl)
    /\ ListsStatus(analysis.Summary.LifecycleMisconfig, StatusLifecycleMisconfig)
    /\ analysis.Summary.OKBuckets + Len(analysis.Summary.MissingBuckets)
         + Len(analysis.Summary.UnusedBuckets) + Len(analysis.Summary.VersionSprawl)
         + Len(analysis.Summary.LifecycleMisconfig) = analysis.Summary.TotalBuckets
DiscoverCategories ==
    /\ analysis.Summary.HealthyBuckets = Cardinality(Classified(StatusOK))
    /\ ListsStatus(analysis.Summary.UnusedBuckets, StatusUnusedBucket)
    /\ ListsStatus(analysis.Summary.RiskyBuckets, StatusRisky)
    /\ ListsStatus(analysis.Summary.InactiveBuckets, StatusInactive)
    /\ ListsStatus(analysis.Summary.VersionSprawl, StatusVersionSprawl)
    /\ analysis.Summary.HealthyBuckets + Len(analysis.Summary.UnusedBuckets)
         + Len(analysis.Summary.RiskyBuckets) + Len(analysis.Summary.InactiveBuckets)
         + Len(analysis.Summary.VersionSprawl) = analysis.Summary.TotalBuckets

\* C30: the result of Analyze (AnalyzeDiscovery) has one entry per container
\* of the input map, TotalBuckets is the number of those containers, every
\* container is counted in exactly the summary category of its status, and
\* the categories add up to TotalBuckets.
C30_SummaryCounts ==
    CommandAnalyzed =>
        /\ DOMAIN analysis.Buckets = DOMAIN retMap
        /\ analysis.Summary.TotalBuckets = Cardinality(DOMAIN retMap)
        /\ IF mode = "inspect" THEN ScanCategories ELSE DiscoverCategories

\* a scan of two containers, one lifecycle-misconfigured and one unused
C30_Witness ==
    /\ CommandAnalyzed /\ mode = "inspect"
    /\ analysis.Summary.TotalBuckets = 2
    /\ Len(analysis.Summary.LifecycleMisconfig) = 1
    /\ Len(analysis.Summary.UnusedBuckets) = 1

\* a discovery of two containers, one inactive and one risky
C30_WitnessDiscover ==
    /\ CommandAnalyzed /\ mode = "discover"
    /\ analysis.Summary.TotalBuckets = 2
    /\ Len(analysis.Summary.InactiveBuckets) = 1
    /\ Len(analysis.Summary.RiskyBuckets) = 1

====
